---- MODULE Spec2Model ----
(***************************************************************************)
(* Model of the client-token pipeline of @zeroad.network/token:            *)
(* the wire codec (encodeClientHeader / decodeClientHeader), the           *)
(* feature/flag mapper (buildContext), the process-wide header cache       *)
(* (configureCaching, trimCache, cleanExpiredEntries) and the async        *)
(* parseClientToken, whose single await (the signature verification)       *)
(* splits every call into two atomic steps.                                *)
(*                                                                         *)
(* Header strings are sequences of character codes: 0..63 are the base64   *)
(* alphabet (the code is the sextet value), PAD is '=', SEPARATOR is '.',  *)
(* and the codes above SEPARATOR are characters outside the alphabet.      *)
(* clientId strings are sequences of UTF-16 code units, turned into UTF-8  *)
(* bytes and back by TextEncode and TextDecode.                            *)
(***************************************************************************)
EXTENDS Integers, Sequences, FiniteSets, TLC

(***************************************************************************)
(* Program constants                                                       *)
(***************************************************************************)
VERSION_BYTES == 1
NONCE_BYTES == 4
UINT32_BYTES == 4
SEPARATOR == 65
PAD == 64
V_1 == 1
CLEAN_WEB == 1
ONE_PASS == 2
MillisPerSecond == 1000
SweepModulus == 100

FEATURE_NUMBERS == <<CLEAN_WEB, ONE_PASS>>

FEATURE_TO_ACTIONS ==
  (CLEAN_WEB :> <<"HIDE_ADVERTISEMENTS", "HIDE_COOKIE_CONSENT_SCREEN",
                  "HIDE_MARKETING_DIALOGS", "DISABLE_NON_FUNCTIONAL_TRACKING">>)
  @@ (ONE_PASS :> <<"DISABLE_CONTENT_PAYWALL", "ENABLE_SUBSCRIPTION_ACCESS">>)

FEATURE_ACTION ==
  {"HIDE_ADVERTISEMENTS", "HIDE_COOKIE_CONSENT_SCREEN", "HIDE_MARKETING_DIALOGS",
   "DISABLE_NON_FUNCTIONAL_TRACKING", "DISABLE_CONTENT_PAYWALL",
   "ENABLE_SUBSCRIPTION_ACCESS"}

EMPTY_CONTEXT ==
  [HIDE_ADVERTISEMENTS |-> FALSE, HIDE_COOKIE_CONSENT_SCREEN |-> FALSE,
   HIDE_MARKETING_DIALOGS |-> FALSE, DISABLE_NON_FUNCTIONAL_TRACKING |-> FALSE,
   DISABLE_CONTENT_PAYWALL |-> FALSE, ENABLE_SUBSCRIPTION_ACCESS |-> FALSE]

createEmptyContext == EMPTY_CONTEXT

DEFAULT_CACHE_CONFIG == [enabled |-> TRUE, maxSize |-> 100, ttl |-> 5000]

\* The two public keys of the model: the network's well-known key and a
\* developer key a site may pass as options.publicKey.  "" is an absent
\* options.publicKey.
ZEROAD_NETWORK_PUBLIC_KEY == "NET"
DEV_PUBLIC_KEY == "DEV"

\* JavaScript's undefined, as a value comparable with every record.
Undefined == [undefined |-> TRUE]

(***************************************************************************)
(* Bytes and base64                                                        *)
(***************************************************************************)
Min(a, b) == IF a < b THEN a ELSE b

Range(seq) == {seq[i] : i \in 1..Len(seq)}

RECURSIVE BitAnd(_, _)
BitAnd(a, b) ==
  IF a = 0 \/ b = 0 THEN 0
  ELSE (IF a % 2 = 1 /\ b % 2 = 1 THEN 1 ELSE 0) + 2 * BitAnd(a \div 2, b \div 2)

RECURSIVE BitOr(_, _)
BitOr(a, b) ==
  IF a = 0 THEN b
  ELSE IF b = 0 THEN a
  ELSE (IF a % 2 = 1 \/ b % 2 = 1 THEN 1 ELSE 0) + 2 * BitOr(a \div 2, b \div 2)

\* the four bytes of a 32-bit n, least significant first.  The model's
\* integers stay below 2^31.
Uint32Bytes(n) ==
  <<n % 256, (n \div 256) % 256, (n \div 65536) % 256, (n \div 16777216) % 256>>

\* the byte orders a host can have
ByteOrders == {"little", "big"}

\* new Uint32Array([n]) viewed through a Uint8Array on its buffer, as
\* mergeByteArrays does: the bytes of n in the byte order of the host
Uint32Array(n, order) ==
  LET b == Uint32Bytes(n)
  IN  IF order = "little" THEN b ELSE <<b[4], b[3], b[2], b[1]>>

\* DataView.getUint32(offset, true)
getUint32(bytes, offset) ==
  bytes[offset + 1] + 256 * bytes[offset + 2] + 65536 * bytes[offset + 3]
    + 16777216 * bytes[offset + 4]

(***************************************************************************)
(* TextEncoder / TextDecoder.  A string is the sequence of its UTF-16 code *)
(* units.                                                                  *)
(***************************************************************************)
ReplacementCharacter == 65533   \* U+FFFD
ByteOrderMark == 65279          \* U+FEFF
IsHighSurrogate(c) == c \in 55296..56319
IsLowSurrogate(c) == c \in 56320..57343

\* the UTF-8 bytes of one code point
Utf8Bytes(cp) ==
  IF cp < 128 THEN <<cp>>
  ELSE IF cp < 2048 THEN <<192 + (cp \div 64), 128 + (cp % 64)>>
  ELSE IF cp < 65536
    THEN <<224 + (cp \div 4096), 128 + ((cp \div 64) % 64), 128 + (cp % 64)>>
  ELSE <<240 + (cp \div 262144), 128 + ((cp \div 4096) % 64), 128 + ((cp \div 64) % 64),
         128 + (cp % 64)>>

\* new TextEncoder().encode(str): a surrogate pair is one code point, a lone
\* surrogate is encoded as U+FFFD
RECURSIVE TextEncode(_)
TextEncode(str) ==
  IF str = <<>> THEN <<>>
  ELSE IF IsHighSurrogate(str[1]) /\ Len(str) > 1 /\ IsLowSurrogate(str[2])
    THEN Utf8Bytes(65536 + (str[1] - 55296) * 1024 + (str[2] - 56320))
           \o TextEncode(Tail(Tail(str)))
  ELSE IF IsHighSurrogate(str[1]) \/ IsLowSurrogate(str[1])
    THEN Utf8Bytes(ReplacementCharacter) \o TextEncode(Tail(str))
  ELSE Utf8Bytes(str[1]) \o TextEncode(Tail(str))

\* the UTF-8 decoder with replacement: an ill-formed sequence gives U+FFFD
\* for its longest well-formed prefix (one byte at least), a code point
\* above U+FFFF gives a surrogate pair
RECURSIVE Utf8Decode(_)
Utf8Decode(b) ==
  IF b = <<>> THEN <<>>
  ELSE
    LET lead == b[1]
        needed == IF lead \in 194..223 THEN 1
                  ELSE IF lead \in 224..239 THEN 2
                  ELSE IF lead \in 240..244 THEN 3
                  ELSE 0
        lower == IF lead = 224 THEN 160 ELSE IF lead = 240 THEN 144 ELSE 128
        upper == IF lead = 237 THEN 159 ELSE IF lead = 244 THEN 143 ELSE 191
        ok(i) == /\ Len(b) >= i
                 /\ IF i = 2 THEN b[i] \in lower..upper ELSE b[i] \in 128..191
        good == IF needed >= 1 /\ ok(2)
                THEN IF needed >= 2 /\ ok(3)
                     THEN IF needed >= 3 /\ ok(4) THEN 3 ELSE 2
                     ELSE 1
                ELSE 0
        rest == SubSeq(b, good + 2, Len(b))
    IN  IF lead < 128 THEN <<lead>> \o Utf8Decode(Tail(b))
        ELSE IF needed = 0 \/ good < needed
          THEN <<ReplacementCharacter>> \o Utf8Decode(rest)
        ELSE IF needed = 1
          THEN <<(lead - 192) * 64 + (b[2] - 128)>> \o Utf8Decode(rest)
        ELSE IF needed = 2
          THEN <<(lead - 224) * 4096 + (b[2] - 128) * 64 + (b[3] - 128)>> \o Utf8Decode(rest)
        ELSE LET cp == (lead - 240) * 262144 + (b[2] - 128) * 4096 + (b[3] - 128) * 64
                         + (b[4] - 128)
             IN  <<55296 + ((cp - 65536) \div 1024), 56320 + ((cp - 65536) % 1024)>>
                   \o Utf8Decode(rest)

\* new TextDecoder().decode(bytes): UTF-8 with replacement; ignoreBOM is
\* false, so a byte order mark at the start is dropped
TextDecode(bytes) ==
  IF Len(bytes) >= 3 /\ SubSeq(bytes, 1, 3) = Utf8Bytes(ByteOrderMark)
  THEN Utf8Decode(SubSeq(bytes, 4, Len(bytes)))
  ELSE Utf8Decode(bytes)

\* base64 without recursion: character k of the text and byte i of the
\* bytes are given by position (groups of 3 bytes <-> 4 characters)
toBase64(data) ==
  LET n == Len(data)
      byte(i) == IF i <= n THEN data[i] ELSE 0
      char(k) ==
        LET g == (k - 1) \div 4
            b1 == byte(3 * g + 1)
            b2 == byte(3 * g + 2)
            b3 == byte(3 * g + 3)
            pos == (k - 1) % 4
        IN  IF pos = 0 THEN b1 \div 4
            ELSE IF pos = 1 THEN (b1 % 4) * 16 + b2 \div 16
            ELSE IF pos = 2 THEN (IF 3 * g + 2 > n THEN PAD ELSE (b2 % 16) * 4 + b3 \div 64)
            ELSE (IF 3 * g + 3 > n THEN PAD ELSE b3 % 64)
  IN  [k \in 1..(4 * ((n + 2) \div 3)) |-> char(k)]

\* the bytes a run of sextets stands for; an incomplete last group gives
\* the whole bytes it covers
SextetsToBytes(q) ==
  LET byte(i) ==
        LET g == (i - 1) \div 3
            r == (i - 1) % 3
        IN  IF r = 0 THEN q[4 * g + 1] * 4 + q[4 * g + 2] \div 16
            ELSE IF r = 1 THEN (q[4 * g + 2] % 16) * 16 + q[4 * g + 3] \div 4
            ELSE (q[4 * g + 3] % 4) * 64 + q[4 * g + 4]
  IN  [i \in 1..((Len(q) * 3) \div 4) |-> byte(i)]

IsAlphabet(c) == c < PAD

SelectAlphabet(s) == SelectSeq(s, IsAlphabet)

UpToPad(s) ==
  LET pads == {i \in 1..Len(s) : s[i] = PAD}
  IN  IF pads = {} THEN s
      ELSE SubSeq(s, 1, (CHOOSE i \in pads : \A j \in pads : i <= j) - 1)

StripPadding(s) ==
  IF Len(s) > 0 /\ Len(s) % 4 = 0 /\ s[Len(s)] = PAD
  THEN IF s[Len(s) - 1] = PAD THEN SubSeq(s, 1, Len(s) - 2) ELSE SubSeq(s, 1, Len(s) - 1)
  ELSE s

\* The three branches of fromBase64.  Uint8Array.fromBase64 and atob reject
\* (throw on) a character outside the alphabet, padding anywhere but at the
\* end of a whole group, and a dangling single character; Buffer.from(..,
\* "base64") never throws: it stops at the first '=' and skips characters
\* outside the alphabet.  The result is [ok, bytes]; ok = FALSE is a throw.
Runtimes == {"fromBase64", "Buffer", "atob"}

fromBase64(input, rt) ==
  IF rt = "Buffer"
  THEN [ok |-> TRUE, bytes |-> SextetsToBytes(SelectAlphabet(UpToPad(input)))]
  ELSE LET s == StripPadding(input)
       IN  IF (\A i \in 1..Len(s) : s[i] < PAD) /\ Len(s) % 4 # 1
           THEN [ok |-> TRUE, bytes |-> SextetsToBytes(s)]
           ELSE [ok |-> FALSE, bytes |-> <<>>]

(***************************************************************************)
(* The signature capability: sign(bytes, privateKey) and                   *)
(* verify(bytes, signature, publicKey).  A signature names the key that    *)
(* made it and the bytes it covers, so it verifies under the matching      *)
(* public key over exactly those bytes and under nothing else.             *)
(***************************************************************************)
KeyByte(key) == IF key = ZEROAD_NETWORK_PUBLIC_KEY THEN 1 ELSE 2

sign(bytes, privateKey) == <<KeyByte(privateKey)>> \o bytes

verify(bytes, signature, publicKey) ==
  /\ Len(signature) > 0
  /\ signature[1] = KeyByte(publicKey)
  /\ Tail(signature) = bytes

(***************************************************************************)
(* Wire codec                                                              *)
(***************************************************************************)
\* String.prototype.indexOf: 0-based, -1 when absent
indexOf(s, c) ==
  LET at == {i \in 1..Len(s) : s[i] = c}
  IN  IF at = {} THEN -1 ELSE (CHOOSE i \in at : \A j \in at : i <= j) - 1

RECURSIVE setFlags(_)
setFlags(features) ==
  IF features = <<>> THEN 0
  ELSE BitOr(setFlags(SubSeq(features, 1, Len(features) - 1)), features[Len(features)])

\* mutation of decodeV1: a payload of exactly the minimum length is refused
decodeV1MinLengthExcluded(bytes) ==
  LET expectedMinLength == VERSION_BYTES + NONCE_BYTES + UINT32_BYTES * 2
      expiresAt == getUint32(bytes, VERSION_BYTES + NONCE_BYTES)
      flags == getUint32(bytes, VERSION_BYTES + NONCE_BYTES + UINT32_BYTES)
      clientId == TextDecode(SubSeq(bytes, expectedMinLength + 1, Len(bytes)))
  IN  IF Len(bytes) <= expectedMinLength
        THEN [threw |-> TRUE, reason |-> "Invalid data length"]
      ELSE [threw |-> FALSE,
            value |-> [version |-> V_1, expiresAt |-> expiresAt * MillisPerSecond,
                       flags |-> flags, clientId |-> clientId]]

\* mutation of decodeV1: a nonce of four zero bytes is refused
decodeV1NonceChecked(bytes) ==
  IF /\ Len(bytes) >= VERSION_BYTES + NONCE_BYTES
     /\ \A n \in (VERSION_BYTES + 1)..(VERSION_BYTES + NONCE_BYTES) : bytes[n] = 0
  THEN [threw |-> TRUE, reason |-> "Invalid data length"]
  ELSE IF Len(bytes) = VERSION_BYTES + NONCE_BYTES + UINT32_BYTES * 2
  THEN [threw |-> FALSE,
        value |-> [version |-> V_1,
                   expiresAt |-> getUint32(bytes, VERSION_BYTES + NONCE_BYTES) * MillisPerSecond,
                   flags |-> getUint32(bytes, VERSION_BYTES + NONCE_BYTES + UINT32_BYTES)]]
  ELSE decodeV1MinLengthExcluded(bytes)

\* The version 1 branch of decodeClientHeader, on the verified payload
\* bytes: [threw |-> FALSE, value] on return, [threw |-> TRUE, reason] on a
\* throw.  An empty clientId is left out of the value.
decodeV1(bytes) ==
  LET expectedMinLength == VERSION_BYTES + NONCE_BYTES + UINT32_BYTES * 2
      expiresAtOffset == VERSION_BYTES + NONCE_BYTES
      flagsOffset == expiresAtOffset + UINT32_BYTES
      expiresAt == getUint32(bytes, expiresAtOffset)
      flags == getUint32(bytes, flagsOffset)
      clientId == IF Len(bytes) > expectedMinLength
                  THEN TextDecode(SubSeq(bytes, expectedMinLength + 1, Len(bytes)))
                  ELSE <<>>
      base == [version |-> V_1, expiresAt |-> expiresAt * MillisPerSecond, flags |-> flags]
  IN  IF Len(bytes) < expectedMinLength
        THEN [threw |-> TRUE, reason |-> "Invalid data length"]
      ELSE [threw |-> FALSE,
            value |-> IF clientId # <<>>
                      THEN [version |-> V_1, expiresAt |-> base.expiresAt,
                            flags |-> flags, clientId |-> clientId]
                      ELSE base]

\* mutation of decodeTry: the version and the length of the payload are
\* read before the signature is verified
decodeTryVersionFirst(headerValue, publicKey, rt) ==
  LET separatorIndex == indexOf(headerValue, SEPARATOR)
      dataBytes == fromBase64(SubSeq(headerValue, 1, separatorIndex), rt)
      signatureBytes ==
        fromBase64(SubSeq(headerValue, separatorIndex + 2, Len(headerValue)), rt)
      bytes == dataBytes.bytes
  IN  IF separatorIndex = -1
        THEN [threw |-> TRUE, reason |-> "Invalid header format: missing separator"]
      ELSE IF ~dataBytes.ok \/ ~signatureBytes.ok
        THEN [threw |-> TRUE, reason |-> "base64"]
      ELSE IF ~(Len(bytes) > 0 /\ bytes[1] = V_1)
        THEN [threw |-> TRUE, reason |-> "Unsupported protocol version"]
      ELSE IF Len(bytes) < VERSION_BYTES + NONCE_BYTES + UINT32_BYTES * 2
        THEN [threw |-> TRUE, reason |-> "Invalid data length"]
      ELSE IF ~verify(bytes, signatureBytes.bytes, publicKey)
        THEN [threw |-> TRUE, reason |-> "Forged header value is provided"]
      ELSE decodeV1(bytes)

\* The body of decodeClientHeader's try block: [threw |-> FALSE, value]
\* on return, [threw |-> TRUE, reason] on a throw.
decodeTry(headerValue, publicKey, rt) ==
  LET separatorIndex == indexOf(headerValue, SEPARATOR)
      data == SubSeq(headerValue, 1, separatorIndex)
      signature == SubSeq(headerValue, separatorIndex + 2, Len(headerValue))
      dataBytes == fromBase64(data, rt)
      signatureBytes == fromBase64(signature, rt)
      bytes == dataBytes.bytes
  IN  IF separatorIndex = -1
        THEN [threw |-> TRUE, reason |-> "Invalid header format: missing separator"]
      ELSE IF ~dataBytes.ok \/ ~signatureBytes.ok
        THEN [threw |-> TRUE, reason |-> "base64"]
      ELSE IF ~verify(bytes, signatureBytes.bytes, publicKey)
        THEN [threw |-> TRUE, reason |-> "Forged header value is provided"]
      ELSE IF Len(bytes) > 0 /\ bytes[1] = V_1
        THEN decodeV1(bytes)
      ELSE [threw |-> TRUE, reason |-> "Unsupported protocol version"]

\* mutation of decodeClientHeader: no catch, a throw of the try block leaves
\* the function
decodeClientHeaderUncaught(headerValue, publicKey, rt) ==
  IF Len(headerValue) = 0
  THEN [threw |-> FALSE, value |-> Undefined, warn |-> <<>>]
  ELSE LET r == decodeTry(headerValue, publicKey, rt)
       IN  IF r.threw
           THEN [threw |-> TRUE, value |-> Undefined, warn |-> <<>>]
           ELSE [threw |-> FALSE, value |-> r.value, warn |-> <<>>]

\* mutation of decodeClientHeader: the catch logs nothing
decodeClientHeaderSilent(headerValue, publicKey, rt) ==
  IF Len(headerValue) = 0
  THEN [threw |-> FALSE, value |-> Undefined, warn |-> <<>>]
  ELSE LET r == decodeTry(headerValue, publicKey, rt)
       IN  IF r.threw
           THEN [threw |-> FALSE, value |-> Undefined, warn |-> <<>>]
           ELSE [threw |-> FALSE, value |-> r.value, warn |-> <<>>]

\* decodeClientHeader: [threw, value, warn].  The catch turns every throw
\* of the try block into undefined plus one "warn" log call carrying the
\* reason (warn is the sequence of the reasons logged: empty or one long);
\* threw is TRUE only if an error leaves the function.
decodeClientHeader(headerValue, publicKey, rt) ==
  IF Len(headerValue) = 0
  THEN [threw |-> FALSE, value |-> Undefined, warn |-> <<>>]
  ELSE LET r == decodeTry(headerValue, publicKey, rt)
       IN  IF r.threw
           THEN [threw |-> FALSE, value |-> Undefined, warn |-> <<r.reason>>]
           ELSE [threw |-> FALSE, value |-> r.value, warn |-> <<>>]

RECURSIVE mergeByteArrays(_)
mergeByteArrays(arrays) ==
  IF arrays = <<>> THEN <<>> ELSE arrays[1] \o mergeByteArrays(Tail(arrays))

\* data = [version, expiresAt (ms), features, clientId (<<>> when absent)];
\* nonceBytes is what nonce(NONCE_BYTES) returned, order the byte order of the
\* host
encodeClientHeader(data, privateKey, nonceBytes, order) ==
  LET payload == mergeByteArrays(
        <<<<data.version % 256>>,
          nonceBytes,
          Uint32Array(data.expiresAt \div MillisPerSecond, order),
          Uint32Array(setFlags(data.features), order)>>
        \o (IF Len(data.clientId) > 0 THEN <<TextEncode(data.clientId)>> ELSE <<>>))
  IN  toBase64(payload) \o <<SEPARATOR>> \o toBase64(sign(payload, privateKey))

(***************************************************************************)
(* Feature/flag mapper                                                     *)
(***************************************************************************)
includes(features, feature) == \E i \in 1..Len(features) : features[i] = feature

\* mutation of AssignActions: the unrolled assignment stops after three
\* actions
AssignActionsUpToThree(context, actionNames, isEnabled) ==
  LET assigned == {actionNames[i] : i \in 1..Min(Len(actionNames), 3)}
  IN  [a \in DOMAIN context \cup assigned |-> IF a \in assigned THEN isEnabled ELSE context[a]]

\* the unrolled assignment of one feature's actions (at most 4 per feature)
AssignActions(context, actionNames, isEnabled) ==
  LET len == Len(actionNames)
      assigned == {actionNames[i] : i \in 1..Min(len, 4)}
  IN  [a \in DOMAIN context \cup assigned |-> IF a \in assigned THEN isEnabled ELSE context[a]]

RECURSIVE ContextLoopGrantOnly(_, _, _, _)
\* mutation of ContextLoop: a feature is enabled by its flag bit alone,
\* declared by the site or not
ContextLoopGrantOnly(context, i, featuresSet, flags) ==
  IF i > Len(FEATURE_NUMBERS) THEN context
  ELSE LET feature == FEATURE_NUMBERS[i]
       IN  ContextLoopGrantOnly(
             [a \in DOMAIN context \cup Range(FEATURE_TO_ACTIONS[feature]) |->
                IF a \in DOMAIN context THEN context[a] ELSE BitAnd(flags, feature) # 0],
             i + 1, featuresSet, flags)

RECURSIVE ContextLoop(_, _, _, _)
\* the loop of buildContext over FEATURE_NUMBERS, from index i (1-based)
ContextLoop(context, i, featuresSet, flags) ==
  IF i > Len(FEATURE_NUMBERS) THEN context
  ELSE LET feature == FEATURE_NUMBERS[i]
           isEnabled == includes(featuresSet, feature) /\ BitAnd(flags, feature) # 0
       IN  ContextLoop(AssignActions(context, FEATURE_TO_ACTIONS[feature], isEnabled),
                       i + 1, featuresSet, flags)

buildContext(data, options, now) ==
  LET flags == IF data # Undefined /\ data.expiresAt >= now
               THEN IF "clientId" \notin DOMAIN data \/ data.clientId = options.clientId
                    THEN data.flags
                    ELSE 0
               ELSE 0
  IN  IF flags = 0 THEN createEmptyContext
      ELSE ContextLoop(<<>>, 1, options.features, flags)

(***************************************************************************)
(* Bounded cache.  headerCache is a Map: here the sequence of its entries  *)
(* in insertion order, each [key, data, effectiveExpiry, accessCount,      *)
(* timestamp].  The extra fields ttl and publicKey are history fields the  *)
(* code does not have: the cacheConfig.ttl the insertion read and the      *)
(* public key the inserting call verified under.                           *)
(***************************************************************************)
has(cache, key) == \E i \in 1..Len(cache) : cache[i].key = key

\* mutation of get: the oldest entry of the map, whatever its key
getOldest(cache, key) == cache[1]

\* mutation of set: the entry is appended, an entry of the same key stays
setAppended(cache, key, entry) == Append(cache, entry)

\* Map.get; only used where has(cache, key)
get(cache, key) == cache[CHOOSE i \in 1..Len(cache) : cache[i].key = key]

\* Map.set: an existing key keeps its place, a new key goes last
set(cache, key, entry) ==
  IF has(cache, key)
  THEN [i \in 1..Len(cache) |-> IF cache[i].key = key THEN entry ELSE cache[i]]
  ELSE Append(cache, entry)

\* Map.delete
delete(cache, key) == SelectSeq(cache, LAMBDA e : e.key # key)

\* mutation of compareEntries: oldest first, whatever the accessCount
compareEntriesOldestFirst(a, b) == a.timestamp - b.timestamp

\* the comparator of trimCache's sort
compareEntries(a, b) ==
  IF a.accessCount # b.accessCount
  THEN a.accessCount - b.accessCount
  ELSE a.timestamp - b.timestamp

RECURSIVE sort(_)
\* Array.prototype.sort (stable) with compareEntries: the entries that
\* compare lowest, in the order they had, then the rest sorted
sort(entries) ==
  IF entries = <<>> THEN <<>>
  ELSE LET least == entries[CHOOSE i \in 1..Len(entries) :
                              \A j \in 1..Len(entries) :
                                compareEntries(entries[i], entries[j]) <= 0]
       IN  SelectSeq(entries, LAMBDA e : compareEntries(e, least) = 0)
             \o sort(SelectSeq(entries, LAMBDA e : compareEntries(e, least) # 0))

\* the loop of trimCache: delete the keys of entries[1..n]
deleteAll(cache, entries, n) ==
  SelectSeq(cache, LAMBDA e : \A i \in 1..n : e.key # entries[i].key)

trimCache(cache, config) ==
  IF Len(cache) <= config.maxSize THEN cache
  ELSE LET entriesToRemove == Len(cache) - config.maxSize
           entries == sort(cache)
       IN  deleteAll(cache, entries, entriesToRemove)

\* mutation of cleanExpiredEntries: an entry that expires at now is kept
cleanExpiredEntriesBefore(cache, now) ==
  SelectSeq(cache, LAMBDA e : ~(e.effectiveExpiry < now))

\* every entry with effectiveExpiry <= now is deleted
cleanExpiredEntries(cache, now) ==
  SelectSeq(cache, LAMBDA e : ~(e.effectiveExpiry <= now))

\* mutation of configureCaching: the new configuration is stored and the
\* capacity bound is not re-applied
configureCachingWithoutTrim(config, oldConfig, cache) ==
  IF ("ttl" \in DOMAIN config /\ config.ttl < 0)
     \/ ("maxSize" \in DOMAIN config /\ config.maxSize < 1)
    THEN [threw |-> TRUE, cacheConfig |-> oldConfig, headerCache |-> cache, trimmed |-> cache]
  ELSE LET merged == [f \in DOMAIN oldConfig |->
                        IF f \in DOMAIN config THEN config[f] ELSE oldConfig[f]]
           cleared == IF ~merged.enabled THEN <<>> ELSE cache
       IN  [threw |-> FALSE, cacheConfig |-> merged, headerCache |-> cleared,
            trimmed |-> cleared]

\* mutation of configureCaching: the configuration is merged before it is
\* validated
configureCachingMergedFirst(config, oldConfig, cache) ==
  LET merged == [f \in DOMAIN oldConfig |->
                   IF f \in DOMAIN config THEN config[f] ELSE oldConfig[f]]
      cleared == IF ~merged.enabled THEN <<>> ELSE cache
  IN  IF merged.ttl < 0 \/ merged.maxSize < 1
        THEN [threw |-> TRUE, cacheConfig |-> merged, headerCache |-> cache, trimmed |-> cache]
      ELSE [threw |-> FALSE, cacheConfig |-> merged,
            headerCache |-> trimCache(cleared, merged), trimmed |-> cleared]

\* mutation of configureCaching: the argument is merged over the default
\* configuration
configureCachingOverDefaults(config, oldConfig, cache) ==
  configureCachingMergedFirst(config, DEFAULT_CACHE_CONFIG, cache)

\* configureCaching(config): config is a partial CacheConfig, a function on
\* the fields it carries.  [threw, cacheConfig, headerCache, trimmed]
\* (trimmed: the cache handed to trimCache).
configureCaching(config, oldConfig, cache) ==
  IF "ttl" \in DOMAIN config /\ config.ttl < 0
    THEN [threw |-> TRUE, cacheConfig |-> oldConfig, headerCache |-> cache, trimmed |-> cache]
  ELSE IF "maxSize" \in DOMAIN config /\ config.maxSize < 1
    THEN [threw |-> TRUE, cacheConfig |-> oldConfig, headerCache |-> cache, trimmed |-> cache]
  ELSE LET merged == [f \in DOMAIN oldConfig |->
                        IF f \in DOMAIN config THEN config[f] ELSE oldConfig[f]]
           cleared == IF ~merged.enabled THEN <<>> ELSE cache
       IN  [threw |-> FALSE, cacheConfig |-> merged,
            headerCache |-> trimCache(cleared, merged), trimmed |-> cleared]

(***************************************************************************)
(* Bounds and inputs of the model                                          *)
(***************************************************************************)
MaxCalls == 2      \* parseClientToken calls in flight at once
MaxParses == 3     \* parseClientToken calls in a run
MaxConfigures == 1 \* configureCaching calls in a run
MaxAccessCount == 3 \* hits on an entry, where the calls of a run are not counted

\* Date.now() takes these values, in milliseconds
StartTime == MillisPerSecond - 1
Times == {StartTime, MillisPerSecond, MillisPerSecond + 1}

ClientA == <<65>>
ClientB == <<66>>
Nonce0 == <<7, 0, 255, 1>>
Nonce1 == <<8, 0, 255, 1>>

\* network-signed, expires at 1 s, grants CLEAN_WEB, no clientId
TokenNet ==
  encodeClientHeader([version |-> V_1, expiresAt |-> MillisPerSecond + 7,
                      features |-> <<CLEAN_WEB>>, clientId |-> <<>>],
                     ZEROAD_NETWORK_PUBLIC_KEY, Nonce0, "little")
\* developer token: signed by the developer key, expires at 2 s, grants
\* both features, scoped to clientId "A"
TokenDevA ==
  encodeClientHeader([version |-> V_1, expiresAt |-> 2 * MillisPerSecond,
                      features |-> <<CLEAN_WEB, ONE_PASS>>, clientId |-> ClientA],
                     DEV_PUBLIC_KEY, Nonce0, "little")
\* network-signed, expires at 2 s, grants both features, no clientId
TokenNetAll ==
  encodeClientHeader([version |-> V_1, expiresAt |-> 2 * MillisPerSecond,
                      features |-> <<CLEAN_WEB, ONE_PASS>>, clientId |-> <<>>],
                     ZEROAD_NETWORK_PUBLIC_KEY, Nonce1, "little")
\* the payload of TokenDevA under the signature of TokenNet
TokenForged ==
  SubSeq(TokenDevA, 1, indexOf(TokenDevA, SEPARATOR) + 1)
    \o SubSeq(TokenNet, indexOf(TokenNet, SEPARATOR) + 2, Len(TokenNet))

Str(s) == [kind |-> "string", s |-> s]
Arr(a) == [kind |-> "array", a |-> a]
NoHeader == [kind |-> "undefined"]

\* the sites of the model: their clientId and declared features
SiteA == [clientId |-> ClientA, features |-> <<CLEAN_WEB, ONE_PASS>>]
SiteB == [clientId |-> ClientB, features |-> <<CLEAN_WEB>>]

Options(site, publicKey, bypassCache) ==
  [clientId |-> site.clientId, features |-> site.features, publicKey |-> publicKey,
   bypassCache |-> bypassCache]

\* the calls parseClientToken(headerValue, options) of the model
ParseInputs ==
  {<<NoHeader, Options(SiteA, "", FALSE)>>,
   <<Str(TokenNet), Options(SiteA, "", FALSE)>>,
   <<Str(TokenNet), Options(SiteA, "", TRUE)>>,
   <<Str(TokenDevA), Options(SiteA, "", FALSE)>>,
   <<Str(TokenDevA), Options(SiteA, DEV_PUBLIC_KEY, FALSE)>>,
   <<Str(TokenDevA), Options(SiteB, DEV_PUBLIC_KEY, FALSE)>>,
   <<Str(TokenForged), Options(SiteA, DEV_PUBLIC_KEY, FALSE)>>,
   <<Arr(<<TokenNet, TokenDevA>>), Options(SiteB, DEV_PUBLIC_KEY, FALSE)>>}

\* a header made without encodeClientHeader: any payload bytes, signed
SignedHeader(payload, privateKey) ==
  toBase64(payload) \o <<SEPARATOR>> \o toBase64(sign(payload, privateKey))

\* network-signed headers the decoder refuses after the signature check:
\* protocol version 2, and a version 1 payload of 12 bytes
TokenV2 ==
  encodeClientHeader([version |-> V_1 + 1, expiresAt |-> 2 * MillisPerSecond,
                      features |-> <<CLEAN_WEB>>, clientId |-> <<>>],
                     ZEROAD_NETWORK_PUBLIC_KEY, Nonce0, "little")
TokenShort ==
  SignedHeader(<<V_1>> \o Nonce0 \o Uint32Bytes(2) \o <<CLEAN_WEB, 0, 0>>,
               ZEROAD_NETWORK_PUBLIC_KEY)
\* TokenNet without its separator, and with a character outside the
\* base64 alphabet in its payload
NoSeparator == SelectSeq(TokenNet, LAMBDA c : c # SEPARATOR)
BadBase64 == [TokenNet EXCEPT ![2] = SEPARATOR + 1]

\* calls whose header is absent, empty or refused by the decoder, next to
\* one that decodes
MalformedInputs ==
  {<<hv, Options(SiteA, "", FALSE)>> :
     hv \in {NoHeader, Str(<<>>), Arr(<<>>), Arr(<< <<>> >>), Str(NoSeparator),
             Str(BadBase64), Str(TokenForged), Str(TokenV2), Str(TokenShort),
             Str(TokenNet)}}

\* the header values parsed through Site instances, and the options the
\* instances are created with: without a cacheConfig, with a valid one, with
\* one whose maxSize or ttl is refused
SiteHeaders == {Str(TokenNet), Str(TokenNetAll)}
SiteCacheConfigs ==
  {[enabled |-> TRUE, maxSize |-> 1, ttl |-> 2],
   [enabled |-> TRUE, maxSize |-> 0, ttl |-> 2],
   [enabled |-> FALSE, maxSize |-> 2, ttl |-> -1]}
SiteOptions ==
  {SiteA, SiteB}
    \cup {[clientId |-> site.clientId, features |-> site.features, cacheConfig |-> c] :
            site \in {SiteA, SiteB}, c \in SiteCacheConfigs}

\* network-signed, expires at 0 s (the epoch), grants CLEAN_WEB, no clientId
TokenEpoch ==
  encodeClientHeader([version |-> V_1, expiresAt |-> 0,
                      features |-> <<CLEAN_WEB>>, clientId |-> <<>>],
                     ZEROAD_NETWORK_PUBLIC_KEY, Nonce1, "little")

\* calls whose tokens expire at 0 s, 1 s and 2 s, next to an undecodable one
ExpiryInputs ==
  {<<Str(h), Options(SiteA, "", FALSE)>> :
     h \in {TokenEpoch, TokenNet, TokenNetAll, TokenForged}}

\* as many distinct network-signed tokens as it takes to fill the cache to
\* the size at which the sweep runs, and some more; they expire at 1 s and
\* at 2 s in turn
MaxSweepParses == SweepModulus + 3
SweepHeaders ==
  [n \in 1..MaxSweepParses |->
     encodeClientHeader([version |-> V_1, expiresAt |-> (1 + (n % 2)) * MillisPerSecond,
                         features |-> <<CLEAN_WEB>>, clientId |-> <<>>],
                        ZEROAD_NETWORK_PUBLIC_KEY, <<n, 0, 0, 1>>, "little")]

\* the partial configurations configureCaching is called with
ConfigArgs ==
  {[maxSize |-> 1], [maxSize |-> 2, ttl |-> 2], [ttl |-> 0],
   [enabled |-> FALSE],
   [ttl |-> -1], [enabled |-> FALSE, maxSize |-> 0]}

(***************************************************************************)
(* State                                                                   *)
(***************************************************************************)
VARIABLES
  runtime,      \* which branch of fromBase64/toBase64 this runtime takes
  clock,        \* Date.now()
  cacheConfig,  \* the module-level cacheConfig
  headerCache,  \* the module-level headerCache
  calls,        \* the parseClientToken calls: idle, or suspended at the await
                \* (with cacheConfig.enabled as the call found it)
  started,      \* parseClientToken calls made so far
  configured,   \* configureCaching calls made so far
  sites,        \* the options of the Site instances created so far
  ev            \* what the last step did and returned (history)

vars == <<runtime, clock, cacheConfig, headerCache, calls, started, configured, sites, ev>>

Idle == [pc |-> "idle"]

\* the module has been loaded and nothing has been called
Loaded ==
  /\ clock = StartTime
  /\ cacheConfig = DEFAULT_CACHE_CONFIG
  /\ headerCache = <<>>
  /\ calls = [i \in 1..MaxCalls |-> Idle]
  /\ started = 0
  /\ configured = 0
  /\ sites = {}

\* Spec runs where Buffer exists and Uint8Array.fromBase64 does not; the three
\* branches decode every header encodeClientHeader returns alike, and
\* SpecMalformed and SpecCodec run all three.
Init ==
  /\ runtime = "Buffer"
  /\ Loaded
  /\ ev = [op |-> "init"]

(***************************************************************************)
(* parseClientToken                                                        *)
(***************************************************************************)
\* mutation of IsAbsent: the empty string is taken for a header
IsAbsentEmptyStringKept(headerValue) ==
  \/ headerValue.kind = "undefined"
  \/ headerValue.kind = "array" /\ headerValue.a = <<>>

\* line 62: !headerValue || (Array.isArray(headerValue) && !headerValue.length)
IsAbsent(headerValue) ==
  \/ headerValue.kind = "undefined"
  \/ headerValue.kind = "string" /\ headerValue.s = <<>>
  \/ headerValue.kind = "array" /\ headerValue.a = <<>>

headerValueAsString(headerValue) ==
  IF headerValue.kind = "array" THEN headerValue.a[1] ELSE headerValue.s

KeyInEffect(options) ==
  IF options.publicKey # "" THEN options.publicKey ELSE ZEROAD_NETWORK_PUBLIC_KEY

\* mutation of UsesCache: bypassCache is ignored
UsesCacheWheneverEnabled(config, options) == config.enabled

\* lines 69 and 82: cacheConfig.enabled && !options.bypassCache
UsesCache(config, options) == config.enabled /\ ~options.bypassCache

\* mutation of lookup: a call sees the entries of its own clientId only
lookupOwnEntries(key, options, now, config, cache) ==
  IF UsesCache(config, options) /\ has(cache, key)
       /\ get(cache, key).options.clientId = options.clientId
  THEN LET cached == get(cache, key)
       IN  IF cached.effectiveExpiry > now
           THEN [hit |-> TRUE, entry |-> cached,
                 headerCache |-> set(cache, key,
                                     [cached EXCEPT !.accessCount = cached.accessCount + 1])]
           ELSE [hit |-> FALSE, entry |-> cached, headerCache |-> delete(cache, key)]
  ELSE [hit |-> FALSE, entry |-> Undefined, headerCache |-> cache]

\* mutation of lookup: an expired entry is left in the cache
lookupKeepingStale(key, options, now, config, cache) ==
  IF UsesCache(config, options) /\ has(cache, key)
  THEN LET cached == get(cache, key)
       IN  IF cached.effectiveExpiry > now
           THEN [hit |-> TRUE, entry |-> cached,
                 headerCache |-> set(cache, key,
                                     [cached EXCEPT !.accessCount = cached.accessCount + 1])]
           ELSE [hit |-> FALSE, entry |-> cached, headerCache |-> cache]
  ELSE [hit |-> FALSE, entry |-> Undefined, headerCache |-> cache]

\* mutation of lookup: a hit also refreshes the entry's timestamp
lookupTouching(key, options, now, config, cache) ==
  IF UsesCache(config, options) /\ has(cache, key)
  THEN LET cached == get(cache, key)
       IN  IF cached.effectiveExpiry > now
           THEN [hit |-> TRUE, entry |-> cached,
                 headerCache |-> set(cache, key,
                                     [cached EXCEPT !.accessCount = cached.accessCount + 1,
                                                    !.timestamp = now])]
           ELSE [hit |-> FALSE, entry |-> cached, headerCache |-> delete(cache, key)]
  ELSE [hit |-> FALSE, entry |-> Undefined, headerCache |-> cache]

\* lines 69-78: the lookup.  [hit, entry, headerCache]
lookup(key, options, now, config, cache) ==
  IF UsesCache(config, options) /\ has(cache, key)
  THEN LET cached == get(cache, key)
       IN  IF cached.effectiveExpiry > now
           THEN [hit |-> TRUE, entry |-> cached,
                 headerCache |-> set(cache, key,
                                     [cached EXCEPT !.accessCount = cached.accessCount + 1])]
           ELSE [hit |-> FALSE, entry |-> cached, headerCache |-> delete(cache, key)]
  ELSE [hit |-> FALSE, entry |-> Undefined, headerCache |-> cache]

\* decodeClientHeader on the header strings and keys of the model's calls,
\* evaluated once: decode(key, publicKey, runtime) is
\* decodeClientHeader(key, publicKey, runtime).  The tokens that fill the
\* cache are only parsed under the network key, in the Buffer runtime.
HeaderStrings ==
  {headerValueAsString(input[1]) :
     input \in {p \in ParseInputs \cup MalformedInputs \cup ExpiryInputs : ~IsAbsent(p[1])}}
    \cup {headerValueAsString(hv) : hv \in SiteHeaders}
PublicKeys == {ZEROAD_NETWORK_PUBLIC_KEY, DEV_PUBLIC_KEY}
DecodeTable ==
  {<<h, k, r, decodeClientHeader(h, k, r)>> : h \in HeaderStrings, k \in PublicKeys, r \in Runtimes}
    \cup {<<h, ZEROAD_NETWORK_PUBLIC_KEY, "Buffer",
            decodeClientHeader(h, ZEROAD_NETWORK_PUBLIC_KEY, "Buffer")>> :
            h \in Range(SweepHeaders)}

decode(key, publicKey, rt) ==
  (CHOOSE t \in DecodeTable : t[1] = key /\ t[2] = publicKey /\ t[3] = rt)[4]

\* mutation of effectiveExpiryOf: a decoded token is cached until its own
\* expiry, whatever the ttl
effectiveExpiryOfTokenOnly(data, now, ttl) ==
  IF data # Undefined /\ data.expiresAt > 0 THEN data.expiresAt ELSE now + ttl

\* lines 83-85
effectiveExpiryOf(data, now, ttl) ==
  LET cacheTTLExpiry == now + ttl
      tokenExpiry == IF data # Undefined THEN data.expiresAt ELSE 0
  IN  IF tokenExpiry > 0 THEN Min(cacheTTLExpiry, tokenExpiry) ELSE cacheTTLExpiry

\* mutation of store: the result is stored whether or not caching is still
\* enabled
storeWhenDisabled(key, data, options, now, config, cache) ==
  IF ~options.bypassCache
  THEN LET inserted == set(cache, key,
                           [key |-> key, data |-> data, timestamp |-> now, accessCount |-> 1,
                            effectiveExpiry |-> effectiveExpiryOf(data, now, config.ttl),
                            ttl |-> config.ttl, publicKey |-> KeyInEffect(options),
                            options |-> options])
       IN  [stored |-> TRUE, sweep |-> FALSE, inserted |-> inserted, trimmed |-> inserted,
            headerCache |-> trimCache(inserted, config)]
  ELSE [stored |-> FALSE, sweep |-> FALSE, inserted |-> cache, trimmed |-> cache,
        headerCache |-> cache]

\* mutation of store: only a decoded payload is stored
storeDecodedOnly(key, data, options, now, config, cache) ==
  IF data # Undefined THEN storeWhenDisabled(key, data, options, now, config, cache)
  ELSE [stored |-> FALSE, sweep |-> FALSE, inserted |-> cache, trimmed |-> cache,
        headerCache |-> cache]

\* lines 82-100: what follows the await.  [inserted, swept, trimmed, headerCache]
\* (inserted: the cache after set; trimmed: the cache handed to trimCache)
store(key, data, options, now, config, cache) ==
  IF UsesCache(config, options)
  THEN LET inserted == set(cache, key,
                           [key |-> key, data |-> data, timestamp |-> now, accessCount |-> 1,
                            effectiveExpiry |-> effectiveExpiryOf(data, now, config.ttl),
                            ttl |-> config.ttl, publicKey |-> KeyInEffect(options),
                            options |-> options])
           sweep == Len(inserted) > 0 /\ Len(inserted) % SweepModulus = 0
           swept == IF sweep THEN cleanExpiredEntries(inserted, now) ELSE inserted
       IN  [stored |-> TRUE, sweep |-> sweep, inserted |-> inserted, trimmed |-> swept,
            headerCache |-> trimCache(swept, config)]
  ELSE [stored |-> FALSE, sweep |-> FALSE, inserted |-> cache, trimmed |-> cache,
        headerCache |-> cache]

\* mutation of serveCached: the hit is served the context of the call that
\* inserted the entry
serveCachedInsertersContext(cached, options, now) ==
  buildContext(cached.data, cached.options, now)

\* line 74: what a hit returns
serveCached(cached, options, now) == buildContext(cached.data, options, now)

\* A call up to its return (absent input, cache hit) or up to the await.
parseClientToken(i, headerValue, options) ==
  /\ calls[i].pc = "idle"
  /\ UNCHANGED <<runtime, clock, cacheConfig, configured, sites>>
  /\ IF IsAbsent(headerValue)
     THEN /\ ev' = [op |-> "return", served |-> "absent", headerValue |-> headerValue,
                    options |-> options, now |-> clock, context |-> createEmptyContext]
          /\ UNCHANGED <<headerCache, calls>>
     ELSE LET key == headerValueAsString(headerValue)
              now == clock
              l == lookup(key, options, now, cacheConfig, headerCache)
          IN  /\ headerCache' = l.headerCache
              /\ IF l.hit
                 THEN /\ ev' = [op |-> "return", served |-> "cache",
                                headerValue |-> headerValue, options |-> options,
                                now |-> now, key |-> key, entry |-> l.entry,
                                data |-> l.entry.data,
                                context |-> serveCached(l.entry, options, now)]
                      /\ UNCHANGED calls
                 ELSE /\ ev' = [op |-> "await", headerValue |-> headerValue,
                                options |-> options, now |-> now, key |-> key,
                                stale |-> l.entry]
                      /\ calls' = [calls EXCEPT ![i] =
                                     [pc |-> "await", headerValue |-> headerValue,
                                      options |-> options, now |-> now,
                                      enabled |-> cacheConfig.enabled,
                                      stale |-> l.entry]]

\* One of at most MaxParses calls; the lowest idle slot takes it.
ParseStart(i, headerValue, options) ==
  /\ \A j \in 1..(i - 1) : calls[j].pc # "idle"
  /\ started < MaxParses
  /\ started' = started + 1
  /\ parseClientToken(i, headerValue, options)

\* The await of decodeClientHeader resolves and the call runs to its return.
ParseFinish(i) ==
  /\ calls[i].pc = "await"
  /\ LET c == calls[i]
         key == headerValueAsString(c.headerValue)
         d == decode(key, KeyInEffect(c.options), runtime)
         st == store(key, d.value, c.options, c.now, cacheConfig, headerCache)
     IN  IF d.threw
         THEN /\ ev' = [op |-> "reject", headerValue |-> c.headerValue, options |-> c.options]
              /\ UNCHANGED headerCache
         ELSE /\ headerCache' = st.headerCache
              /\ ev' = [op |-> "return", served |-> "decode", headerValue |-> c.headerValue,
                        options |-> c.options, now |-> c.now, key |-> key,
                        data |-> d.value, warn |-> d.warn, stored |-> st.stored,
                        replaced |-> IF st.stored /\ has(headerCache, key)
                                     THEN get(headerCache, key) ELSE Undefined,
                        enabled |-> c.enabled, stale |-> c.stale,
                        inserted |-> st.inserted,
                        sweep |-> st.sweep, trimmed |-> st.trimmed,
                        maxSize |-> cacheConfig.maxSize,
                        context |-> buildContext(d.value, c.options, c.now)]
  /\ calls' = [calls EXCEPT ![i] = Idle]
  /\ UNCHANGED <<runtime, clock, cacheConfig, started, configured, sites>>

\* a call configureCaching(config)
ConfigureCall(config) ==
  /\ configured' = configured + 1
  /\ LET r == configureCaching(config, cacheConfig, headerCache)
     IN  /\ cacheConfig' = r.cacheConfig
         /\ headerCache' = r.headerCache
         /\ ev' = [op |-> "configure", via |-> "configureCaching",
                   config |-> config, threw |-> r.threw,
                   trimmed |-> r.trimmed, maxSize |-> r.cacheConfig.maxSize]
  /\ UNCHANGED <<runtime, clock, calls, started, sites>>

\* one of at most MaxConfigures calls
Configure(config) == configured < MaxConfigures /\ ConfigureCall(config)

Tick ==
  /\ \E t \in Times : t > clock /\ clock' = t
  /\ ev' = [op |-> "tick"]
  /\ UNCHANGED <<runtime, cacheConfig, headerCache, calls, started, configured, sites>>

Next ==
  \/ \E i \in 1..MaxCalls, input \in ParseInputs : ParseStart(i, input[1], input[2])
  \/ \E i \in 1..MaxCalls : ParseFinish(i)
  \/ \E config \in ConfigArgs : Configure(config)
  \/ Tick

Spec == Init /\ [][Next]_vars

(***************************************************************************)
(* Site instances: creation with and without a cacheConfig, parses through *)
(* the instances, next to direct configureCaching calls                    *)
(***************************************************************************)
\* Site(options).  SERVER_HEADER_VALUE and the header names of the instance
\* are left out.  A throw of configureCaching leaves the constructor: no
\* instance is returned.
Site(options) ==
  LET instance == [clientId |-> options.clientId, features |-> options.features]
  IN  /\ IF "cacheConfig" \in DOMAIN options
         THEN /\ configured < MaxConfigures
              /\ configured' = configured + 1
              /\ LET r == configureCaching(options.cacheConfig, cacheConfig, headerCache)
                 IN  /\ cacheConfig' = r.cacheConfig
                     /\ headerCache' = r.headerCache
                     /\ sites' = IF r.threw THEN sites ELSE sites \cup {instance}
                     /\ ev' = [op |-> "configure", via |-> "Site",
                               config |-> options.cacheConfig, threw |-> r.threw,
                               trimmed |-> r.trimmed, maxSize |-> r.cacheConfig.maxSize]
         ELSE /\ sites' = sites \cup {instance}
              /\ ev' = [op |-> "site", options |-> options]
              /\ UNCHANGED <<cacheConfig, headerCache, configured>>
      /\ UNCHANGED <<runtime, clock, calls, started>>

\* instance.parseClientToken(headerValue), lines 20-21
SiteParse(i, instance, headerValue) ==
  /\ instance \in sites
  /\ ParseStart(i, headerValue, Options(instance, "", FALSE))

NextSites ==
  \/ \E options \in SiteOptions : Site(options)
  \/ \E i \in 1..MaxCalls, instance \in {SiteA, SiteB}, headerValue \in SiteHeaders :
       SiteParse(i, instance, headerValue)
  \/ \E i \in 1..MaxCalls : ParseFinish(i)
  \/ \E config \in ConfigArgs : Configure(config)
  \/ Tick

SpecSites == Init /\ [][NextSites]_vars

(***************************************************************************)
(* parseClientToken on absent, empty and undecodable headers, in each of   *)
(* the three runtimes                                                      *)
(***************************************************************************)
InitMalformed ==
  /\ runtime \in Runtimes
  /\ Loaded
  /\ ev = [op |-> "init"]

NextMalformed ==
  \/ \E i \in 1..MaxCalls, input \in MalformedInputs : ParseStart(i, input[1], input[2])
  \/ \E i \in 1..MaxCalls : ParseFinish(i)

SpecMalformed == InitMalformed /\ [][NextMalformed]_vars

(***************************************************************************)
(* Cached parses of tokens of every expiry, the epoch included, next to    *)
(* configureCaching calls                                                  *)
(***************************************************************************)
NextExpiry ==
  \/ \E i \in 1..MaxCalls, input \in ExpiryInputs : ParseStart(i, input[1], input[2])
  \/ \E i \in 1..MaxCalls : ParseFinish(i)
  \/ \E config \in ConfigArgs : Configure(config)
  \/ Tick

SpecExpiry == Init /\ [][NextExpiry]_vars

(***************************************************************************)
(* A run of cache-inserting parses, one call at a time, long enough for    *)
(* the cache to reach the size at which the expired-entry sweep runs       *)
(***************************************************************************)
NearSweepSize == Len(headerCache) >= SweepModulus - 2

\* a call on a header that is not in the cache or whose entry has expired:
\* the next token never parsed before, or, with the cache near the sweep
\* size, one of the first two again
SweepParse(headerValue) ==
  /\ started < MaxSweepParses
  /\ started' = started + 1
  /\ headerValue \in {Str(SweepHeaders[n]) :
                         n \in {started + 1} \cup (IF NearSweepSize THEN {1, 2} ELSE {})}
  /\ ~lookup(headerValue.s, Options(SiteA, "", FALSE), clock, cacheConfig, headerCache).hit
  /\ parseClientToken(1, headerValue, Options(SiteA, "", FALSE))

\* the clock and the configuration are left alone while the cache fills
SweepTick == NearSweepSize /\ Tick

SweepConfigure(config) == (ev.op = "init" \/ NearSweepSize) /\ Configure(config)

NextSweep ==
  \/ \E n \in 1..MaxSweepParses : SweepParse(Str(SweepHeaders[n]))
  \/ \E i \in 1..MaxCalls : ParseFinish(i)
  \/ \E config \in ConfigArgs : SweepConfigure(config)
  \/ SweepTick

SpecSweep == Init /\ [][NextSweep]_vars

(***************************************************************************)
(* Parses without end: the calls of a run are not counted, a call that was *)
(* suspended at the await is resumed in the end                            *)
(***************************************************************************)
EvictionHeaders == {TokenNet, TokenNetAll}

\* a hit is left out once it would take an accessCount over MaxAccessCount
EvictionParse(i, headerValue) ==
  /\ \A j \in 1..(i - 1) : calls[j].pc # "idle"
  /\ LET l == lookup(headerValue.s, Options(SiteA, "", FALSE), clock, cacheConfig,
                     headerCache)
     IN  l.hit => l.entry.accessCount < MaxAccessCount
  /\ parseClientToken(i, headerValue, Options(SiteA, "", FALSE))
  /\ UNCHANGED started

NextEviction ==
  \/ \E i \in 1..MaxCalls, h \in EvictionHeaders : EvictionParse(i, Str(h))
  \/ \E i \in 1..MaxCalls : ParseFinish(i)
  \/ \E config \in ConfigArgs : Configure(config)
  \/ Tick

\* the steps of ParseFinish: a suspended call runs to its return.  The
\* promise of decodeClientHeader always settles, so a suspended call is
\* resumed in the end.
Resume == \E i \in 1..MaxCalls : calls[i].pc = "await" /\ calls' = [calls EXCEPT ![i] = Idle]

SpecEviction == Init /\ [][NextEviction]_vars /\ WF_calls(Resume)

(***************************************************************************)
(* The "warn" log calls of parses: absent, empty and undecodable headers,  *)
(* a token that expires as the clock advances, a token scoped to another   *)
(* clientId, hits on cached results, in each of the three runtimes         *)
(***************************************************************************)
WarnInputs ==
  MalformedInputs \cup {<<Str(TokenDevA), Options(SiteB, DEV_PUBLIC_KEY, FALSE)>>}

NextWarn ==
  \/ \E i \in 1..MaxCalls, input \in WarnInputs : ParseStart(i, input[1], input[2])
  \/ \E i \in 1..MaxCalls : ParseFinish(i)
  \/ Tick

SpecWarn == InitMalformed /\ [][NextWarn]_vars

(***************************************************************************)
(* configureCaching called again: a partial configuration over one that a  *)
(* former call left, with entries in the cache                             *)
(***************************************************************************)
MaxReconfigures == MaxConfigures + 1

Reconfigure(config) == configured < MaxReconfigures /\ ConfigureCall(config)

NextReconfigure ==
  \/ \E i \in 1..MaxCalls, h \in SiteHeaders :
       ParseStart(i, h, Options(SiteA, "", FALSE))
  \/ \E i \in 1..MaxCalls : ParseFinish(i)
  \/ \E config \in ConfigArgs : Reconfigure(config)

SpecReconfigure == Init /\ [][NextReconfigure]_vars

(***************************************************************************)
(* decodeClientHeader as a function: on the headers of the model, on every *)
(* change of one character of two valid headers, under both keys, in each  *)
(* runtime                                                                 *)
(***************************************************************************)
\* one character replaced: a base64 character by the next one of the
\* alphabet, '=' and '.' by the first one
Tamper(s, i) == [s EXCEPT ![i] = IF s[i] < PAD THEN (s[i] + 1) % PAD ELSE 0]

\* network-signed payloads that are not version 1 and shorter than 13 bytes:
\* 7 bytes that start with 2, and no byte at all
TokenV2Short == SignedHeader(<<V_1 + 1>> \o Nonce0 \o <<0, 0>>, ZEROAD_NETWORK_PUBLIC_KEY)
TokenNoPayload == SignedHeader(<<>>, ZEROAD_NETWORK_PUBLIC_KEY)

CodecHeaders ==
  {<<>>, TokenNet, TokenDevA, TokenForged, TokenV2, TokenShort, NoSeparator, BadBase64,
   TokenV2Short, TokenNoPayload, Tamper(NoSeparator, 2)}
    \cup {Tamper(TokenNet, i) : i \in 1..Len(TokenNet)}
    \cup {Tamper(TokenDevA, i) : i \in 1..Len(TokenDevA)}

InitCodec ==
  /\ runtime \in Runtimes
  /\ Loaded
  /\ ev \in {[op |-> "input", headerValue |-> h, publicKey |-> k] :
               h \in CodecHeaders, k \in PublicKeys}

Decode ==
  /\ ev.op = "input"
  /\ ev' = [op |-> "decoded", headerValue |-> ev.headerValue, publicKey |-> ev.publicKey,
            result |-> decodeClientHeader(ev.headerValue, ev.publicKey, runtime)]
  /\ UNCHANGED <<runtime, clock, cacheConfig, headerCache, calls, started, configured, sites>>

SpecCodec == InitCodec /\ [][Decode]_vars

(***************************************************************************)
(* buildContext as a function: on every decoded payload, site and time of  *)
(* the sets below                                                          *)
(***************************************************************************)
MaxFlags == 7      \* token flags 0..MaxFlags: the two feature bits and one more

FeatureLists ==
  {<<>>, <<CLEAN_WEB>>, <<ONE_PASS>>, <<CLEAN_WEB, ONE_PASS>>, <<ONE_PASS, CLEAN_WEB>>,
   <<CLEAN_WEB, ONE_PASS, CLEAN_WEB>>}

ContextData ==
  {Undefined}
    \cup {[version |-> V_1, expiresAt |-> e, flags |-> f] :
            e \in {MillisPerSecond, 2 * MillisPerSecond}, f \in 0..MaxFlags}
    \cup {[version |-> V_1, expiresAt |-> e, flags |-> f, clientId |-> c] :
            e \in {MillisPerSecond, 2 * MillisPerSecond}, f \in 0..MaxFlags,
            c \in {ClientA, ClientB}}

InitContext ==
  /\ runtime = "Buffer"
  /\ Loaded
  /\ ev \in {[op |-> "input", data |-> d, now |-> t,
              options |-> Options([clientId |-> c, features |-> fs], "", FALSE)] :
               d \in ContextData, t \in Times, c \in {ClientA, ClientB}, fs \in FeatureLists}

Build ==
  /\ ev.op = "input"
  /\ ev' = [op |-> "built", data |-> ev.data, options |-> ev.options, now |-> ev.now,
            context |-> buildContext(ev.data, ev.options, ev.now)]
  /\ UNCHANGED <<runtime, clock, cacheConfig, headerCache, calls, started, configured, sites>>

SpecContext == InitContext /\ [][Build]_vars

(***************************************************************************)
(* encodeClientHeader followed by decodeClientHeader under the matching    *)
(* key, on a host of either byte order, in each runtime                    *)
(***************************************************************************)
\* the model's integers stay below 2^31: the seconds a decoded payload may
\* carry, so that its expiresAt in milliseconds does
MaxSeconds == 2097151

\* the bytes new Uint32Array([n]) has on the host, read back by
\* getUint32(offset, true), give a number of at most MaxSeconds
ReadsBackInRange(n, order) ==
  LET b == Uint32Array(n, order)
  IN  b[4] = 0 /\ b[3] * 65536 + b[2] * 256 + b[1] <= MaxSeconds

\* expiresAt.getTime() of the data encoded
RoundTripExpiries ==
  {0, StartTime, MillisPerSecond, 2 * MillisPerSecond - 1, 256 * MillisPerSecond,
   257 * MillisPerSecond - 1, 65536 * MillisPerSecond, MaxSeconds * MillisPerSecond + 999}

\* clientId of the data encoded: absent or empty, "A", "AB", one character
\* of two and one of three UTF-8 bytes, a surrogate pair, a byte order mark
\* alone and before "A", a lone surrogate
RoundTripClientIds ==
  {<<>>, ClientA, ClientA \o ClientB, <<233>>, <<8364>>, <<55357, 56832>>,
   <<ByteOrderMark>>, <<ByteOrderMark>> \o ClientA, <<55296>>}

EncodeData ==
  {[version |-> V_1, expiresAt |-> e, features |-> fs, clientId |-> c] :
     e \in RoundTripExpiries, fs \in FeatureLists, c \in RoundTripClientIds}

\* the calls encodeClientHeader(data, key) of the model on a host of byte
\* order `order`, those whose payload reads back in range
RoundTripInputs ==
  {i \in {[op |-> "input", data |-> d, key |-> k, order |-> o] :
            d \in EncodeData, k \in PublicKeys, o \in ByteOrders} :
     /\ ReadsBackInRange(i.data.expiresAt \div MillisPerSecond, i.order)
     /\ ReadsBackInRange(setFlags(i.data.features), i.order)}

InitRoundTrip ==
  /\ runtime \in Runtimes
  /\ Loaded
  /\ ev \in RoundTripInputs

RoundTrip ==
  /\ ev.op = "input"
  /\ LET header == encodeClientHeader(ev.data, ev.key, Nonce0, ev.order)
     IN  ev' = [op |-> "roundtrip", data |-> ev.data, key |-> ev.key, order |-> ev.order,
                header |-> header,
                result |-> decodeClientHeader(header, ev.key, runtime)]
  /\ UNCHANGED <<runtime, clock, cacheConfig, headerCache, calls, started, configured, sites>>

SpecRoundTrip == InitRoundTrip /\ [][RoundTrip]_vars

(***************************************************************************)
(* Two tokens of the same data under different nonces, each signed, decoded *)
(* under the same key and turned into a context for the same site and time *)
(***************************************************************************)
Nonces == {Nonce0, Nonce1, <<0, 0, 0, 0>>, <<255, 255, 255, 255>>, <<7, 0, 255, 2>>}

NonceData ==
  {[version |-> V_1, expiresAt |-> e, features |-> fs, clientId |-> c] :
     e \in {MillisPerSecond, 2 * MillisPerSecond},
     fs \in {<<>>, <<CLEAN_WEB>>, <<CLEAN_WEB, ONE_PASS>>},
     c \in {<<>>, ClientA}}

InitNonce ==
  /\ runtime \in Runtimes
  /\ Loaded
  /\ ev \in {[op |-> "input", data |-> d, key |-> k, first |-> n1, second |-> n2,
               options |-> Options(site, k, FALSE), now |-> t] :
                d \in NonceData, k \in PublicKeys, n1 \in Nonces, n2 \in Nonces,
                site \in {SiteA, SiteB}, t \in {StartTime, MillisPerSecond + 1}}

DecodePair ==
  /\ ev.op = "input"
  /\ LET h1 == encodeClientHeader(ev.data, ev.key, ev.first, "little")
         h2 == encodeClientHeader(ev.data, ev.key, ev.second, "little")
         r1 == decodeClientHeader(h1, ev.key, runtime)
         r2 == decodeClientHeader(h2, ev.key, runtime)
     IN  ev' = [op |-> "pair", data |-> ev.data, key |-> ev.key,
                first |-> ev.first, second |-> ev.second,
                options |-> ev.options, now |-> ev.now,
                headers |-> <<h1, h2>>, results |-> <<r1, r2>>,
                contexts |-> <<buildContext(r1.value, ev.options, ev.now),
                               buildContext(r2.value, ev.options, ev.now)>>]
  /\ UNCHANGED <<runtime, clock, cacheConfig, headerCache, calls, started, configured, sites>>

SpecNonce == InitNonce /\ [][DecodePair]_vars

(***************************************************************************)
(* Properties.  ev describes the step that led to the current state: the   *)
(* call that returned with its input, its now and its result, or the       *)
(* configureCaching call with the cache it handed to trimCache.            *)
(***************************************************************************)
AnyTrue(context) == \E a \in DOMAIN context : context[a]

\* the signature part of the header verifies over its payload bytes
SignatureVerifies(headerValue, publicKey, rt) ==
  LET separatorIndex == indexOf(headerValue, SEPARATOR)
      dataBytes == fromBase64(SubSeq(headerValue, 1, separatorIndex), rt)
      signatureBytes ==
        fromBase64(SubSeq(headerValue, separatorIndex + 2, Len(headerValue)), rt)
  IN  /\ separatorIndex # -1
      /\ dataBytes.ok
      /\ signatureBytes.ok
      /\ verify(dataBytes.bytes, signatureBytes.bytes, publicKey)

\* SignatureVerifies on the header strings and keys of the model's calls,
\* evaluated once
VerifyTable ==
  {<<h, k, r, SignatureVerifies(h, k, r)>> : h \in HeaderStrings, k \in PublicKeys, r \in Runtimes}

Verifies(key, publicKey, rt) ==
  (CHOOSE t \in VerifyTable : t[1] = key /\ t[2] = publicKey /\ t[3] = rt)[4]

\* the payload bytes of a header: what precedes its separator, decoded
PayloadBytes(headerValue, rt) ==
  fromBase64(SubSeq(headerValue, 1, indexOf(headerValue, SEPARATOR)), rt).bytes

\* the header is non-empty, has a separator, its signature verifies, and its
\* payload starts with the byte 1 and is at least 13 bytes long
Decodes(headerValue, publicKey, rt) ==
  /\ Len(headerValue) > 0
  /\ SignatureVerifies(headerValue, publicKey, rt)
  /\ Len(PayloadBytes(headerValue, rt)) >= 13
  /\ PayloadBytes(headerValue, rt)[1] = 1

\* Decodes on the header strings and keys of the model's calls, evaluated
\* once
DecodesTable ==
  {<<h, k, r, Decodes(h, k, r)>> : h \in HeaderStrings, k \in PublicKeys, r \in Runtimes}

IsDecodable(key, publicKey, rt) ==
  (CHOOSE t \in DecodesTable : t[1] = key /\ t[2] = publicKey /\ t[3] = rt)[4]

\* the feature that owns an action, and whether flags has the bit of a
\* feature (a power of two)
Owner(a) == CHOOSE f \in Range(FEATURE_NUMBERS) : a \in Range(FEATURE_TO_ACTIONS[f])

Granted(flags, f) == (flags \div f) % 2 = 1

\* the context the feature table gives for these flags and declared features
Derived(flags, features) ==
  [a \in FEATURE_ACTION |-> Owner(a) \in Range(features) /\ Granted(flags, Owner(a))]

InScope(data, options) == "clientId" \notin DOMAIN data \/ data.clientId = options.clientId

\* a call that got past the absent-input check has returned
Returned == ev.op = "return" /\ ev.served # "absent"

\* what the header of the call that returned decodes to under the key in
\* effect for that call
Payload == decode(ev.key, KeyInEffect(ev.options), runtime).value

\* C1: a returned context has an action true only if the header's signature
\* verifies under the public key in effect for that call.
C1_SignatureGate ==
  (Returned /\ AnyTrue(ev.context))
    => Verifies(ev.key, KeyInEffect(ev.options), runtime)

\* C2: no call rejects; every call returns a total context; a call whose
\* decode was refused at any step, or that was served a cached refusal,
\* returns the all-false context of an absent header.
C2_NeverRejects ==
  /\ ev.op # "reject"
  /\ ev.op = "return" => ev.context \in [FEATURE_ACTION -> BOOLEAN]
  /\ (ev.op = "return" /\ ev.served = "decode"
        /\ ~IsDecodable(ev.key, KeyInEffect(ev.options), runtime))
       => ev.data = Undefined /\ ev.context = createEmptyContext
  /\ (Returned /\ ev.data = Undefined) => ev.context = createEmptyContext

\* a call whose header passed the signature check and was refused for its
\* length has returned
C2_Witness ==
  /\ ev.op = "return"
  /\ ev.served = "decode"
  /\ ev.warn = <<"Invalid data length">>
  /\ ev.context = EMPTY_CONTEXT

\* C3: decodeClientHeader returns a payload exactly when the header is
\* non-empty, has a separator, its signature verifies under the given key,
\* and its payload starts with the byte 1 and has at least 13 bytes; it
\* returns undefined otherwise, and never throws.
C3_DecodesIff ==
  ev.op = "decoded" =>
    /\ ~ev.result.threw
    /\ ev.result.value # Undefined <=> Decodes(ev.headerValue, ev.publicKey, runtime)

\* a header whose signature verifies and whose payload starts with 1 was
\* refused: it is too short
C3_Witness ==
  /\ ev.op = "decoded"
  /\ ev.result.value = Undefined
  /\ SignatureVerifies(ev.headerValue, ev.publicKey, runtime)
  /\ PayloadBytes(ev.headerValue, runtime)[1] = 1

\* C4: a call with a validly signed, in-scope token that grants a feature
\* the site declares returns the derived, non-empty context at
\* now = expiresAt and the all-false context at any now > expiresAt.
C4_ExpiryInclusive ==
  (Returned /\ Payload # Undefined /\ InScope(Payload, ev.options)
     /\ \E f \in Range(ev.options.features) : Granted(Payload.flags, f))
    => /\ ev.now = Payload.expiresAt
            => /\ AnyTrue(ev.context)
               /\ ev.context = Derived(Payload.flags, ev.options.features)
       /\ ev.now > Payload.expiresAt => ev.context = EMPTY_CONTEXT

\* C5: a call with a validly signed token that carries a clientId returns
\* the all-false context if the site's clientId differs, and the context
\* derived from the flags if it is the same and the token has not expired.
C5_ClientIdScope ==
  (Returned /\ Payload # Undefined /\ "clientId" \in DOMAIN Payload)
    => /\ Payload.clientId # ev.options.clientId => ev.context = EMPTY_CONTEXT
       /\ (Payload.clientId = ev.options.clientId /\ ev.now <= Payload.expiresAt)
            => ev.context = Derived(Payload.flags, ev.options.features)

\* C6: for an unexpired decoded token in scope, each of the six actions is in
\* the context, and is true exactly when its feature is declared by the
\* site and its bit is set in the flags.
C6_ActionIffDeclaredAndGranted ==
  (ev.op = "built" /\ ev.data # Undefined /\ ev.now <= ev.data.expiresAt
     /\ InScope(ev.data, ev.options))
    => \A a \in FEATURE_ACTION :
         /\ a \in DOMAIN ev.context
         /\ ev.context[a] <=> /\ Owner(a) \in Range(ev.options.features)
                              /\ Granted(ev.data.flags, Owner(a))

\* the token grants both features and the site declares CLEAN_WEB alone
C6_Witness ==
  /\ ev.op = "built"
  /\ ev.data # Undefined
  /\ Granted(ev.data.flags, CLEAN_WEB) /\ Granted(ev.data.flags, ONE_PASS)
  /\ ev.options.features = <<CLEAN_WEB>>
  /\ ev.context.HIDE_ADVERTISEMENTS
  /\ ~ev.context.DISABLE_CONTENT_PAYWALL

\* C7: a returned context is a total map from the six action names to
\* booleans, and is the all-false context or the one the feature table
\* gives for the token's flags and the site's features.
C7_ContextTotal ==
  ev.op \in {"built", "return"} =>
    /\ ev.context \in [FEATURE_ACTION -> BOOLEAN]
    /\ \/ ev.context = EMPTY_CONTEXT
       \/ ev.data # Undefined /\ ev.context = Derived(ev.data.flags, ev.options.features)

\* a context built from the feature table, some actions true, some false
C7_Witness ==
  /\ ev.op = "built"
  /\ AnyTrue(ev.context)
  /\ \E a \in FEATURE_ACTION : ~ev.context[a]

\* a trimCache call that found the cache over capacity has just run;
\* ev.trimmed is the cache it found, headerCache the cache it left
Trimmed ==
  /\ \/ ev.op = "configure" /\ ~ev.threw
     \/ ev.op = "return" /\ ev.served = "decode" /\ ev.stored
  /\ Len(ev.trimmed) > ev.maxSize

Removed == Range(ev.trimmed) \ Range(headerCache)

\* C8: between operations the cache holds at most cacheConfig.maxSize
\* entries.
C8_SizeWithinMaxSize == Len(headerCache) <= cacheConfig.maxSize

\* configureCaching has lowered maxSize below the size of the cache
C8_Witness ==
  /\ ev.op = "configure" /\ ~ev.threw
  /\ "maxSize" \in DOMAIN ev.config
  /\ Len(ev.trimmed) > ev.maxSize
  /\ Len(headerCache) = cacheConfig.maxSize

\* C9: a trim of an over-capacity cache removes exactly size - maxSize
\* entries and leaves the others as they were; no removed entry has a higher
\* accessCount than a retained one, nor, at equal accessCount, a later
\* timestamp.
C9_TrimOrder ==
  Trimmed =>
    /\ Len(headerCache) = ev.maxSize
    /\ Cardinality(Removed) = Len(ev.trimmed) - ev.maxSize
    /\ Range(headerCache) \subseteq Range(ev.trimmed)
    /\ \A r \in Removed, k \in Range(headerCache) :
         /\ r.accessCount <= k.accessCount
         /\ r.accessCount = k.accessCount => r.timestamp <= k.timestamp

\* an insertion evicted one entry: the newer but less used one
C9_Witness ==
  /\ Trimmed
  /\ ev.op = "return"
  /\ Cardinality(Removed) = 1
  /\ \E r \in Removed, k \in Range(headerCache) :
       r.accessCount < k.accessCount /\ r.timestamp > k.timestamp

\* C10: a call is served from a cache entry only before the entry's
\* timestamp (the inserting call's now) plus the ttl the insertion read; an
\* entry inserted under ttl 0 serves none.
C10_TtlBound ==
  (ev.op = "return" /\ ev.served = "cache")
    => /\ ev.now < ev.entry.timestamp + ev.entry.ttl
       /\ ev.entry.ttl > 0

\* a call found an entry past its ttl whose token has not expired, and went
\* on to the decode
C10_Witness ==
  /\ ev.op = "await"
  /\ ev.stale # Undefined
  /\ ev.stale.data # Undefined
  /\ ev.stale.data.expiresAt > clock
  /\ ev.stale.ttl > 0
  /\ clock >= ev.stale.timestamp + ev.stale.ttl

AllFalse == [a \in FEATURE_ACTION |-> FALSE]

\* undefined, the empty string, the empty sequence
AbsentInput(headerValue) == headerValue \in {NoHeader, Str(<<>>), Arr(<<>>)}

\* C11: a call with undefined, the empty string or an empty sequence never
\* reaches the await of the decoder; it returns all six actions false in the
\* step that starts it, and that step leaves the cache, entries and
\* accessCounts, and the suspended calls as they were.
C11_AbsentShortCircuit ==
  [][/\ \A i \in 1..MaxCalls :
          (calls[i].pc = "idle" /\ calls'[i].pc = "await")
            => ~AbsentInput(calls'[i].headerValue)
     /\ (ev'.op = "return" /\ AbsentInput(ev'.headerValue))
          => /\ ev'.served = "absent"
             /\ ev'.context = AllFalse
             /\ Cardinality(DOMAIN ev'.context) = 6
             /\ headerCache' = headerCache
             /\ calls' = calls]_vars

\* the empty string was parsed while the cache held an entry and another
\* call was suspended at the decoder
C11_Witness ==
  /\ ev.op = "return"
  /\ ev.served = "absent"
  /\ ev.headerValue = Str(<<>>)
  /\ headerCache # <<>>
  /\ \E i \in 1..MaxCalls : calls[i].pc = "await"

\* the context a payload gives a call: all false without a payload, past its
\* expiry or out of its clientId scope, the feature table's otherwise
ContextOf(data, options, now) ==
  IF data = Undefined THEN AllFalse
  ELSE IF data.expiresAt < now \/ ~InScope(data, options) THEN AllFalse
  ELSE Derived(data.flags, options.features)

\* C12: a call served from the cache returns the context its own clientId,
\* features and now give for the cached payload, whichever call inserted the
\* entry; an entry holds a payload or undefined, never a context.
C12_HitRecomputes ==
  /\ (ev.op = "return" /\ ev.served = "cache")
       => ev.context = ContextOf(ev.entry.data, ev.options, ev.now)
  /\ \A e \in Range(headerCache) :
       \/ e.data = Undefined
       \/ DOMAIN e.data \subseteq {"version", "expiresAt", "flags", "clientId"}

\* a site was served, under the same key, from an entry another site
\* inserted, and got a context other than the inserting site's
C12_Witness ==
  /\ ev.op = "return"
  /\ ev.served = "cache"
  /\ ev.entry.publicKey = KeyInEffect(ev.options)
  /\ ev.entry.options.clientId # ev.options.clientId
  /\ ev.context # ContextOf(ev.entry.data, ev.entry.options, ev.now)

\* a configuration configureCaching must refuse
Invalid(config) ==
  \/ "ttl" \in DOMAIN config /\ config.ttl < 0
  \/ "maxSize" \in DOMAIN config /\ config.maxSize < 1

\* C13: a configureCaching call with ttl < 0 or maxSize < 1, made directly
\* or by Site({cacheConfig}), throws and leaves every field of the
\* configuration and the whole cache as they were.
C13_InvalidConfigRejected ==
  [][(ev'.op = "configure" /\ Invalid(ev'.config))
       => /\ ev'.threw
          /\ cacheConfig' = cacheConfig
          /\ headerCache' = headerCache]_vars

\* Site was given maxSize 0 next to a ttl other than the current one, while
\* the cache held an entry: it threw, and the ttl and the entry are still
\* there
C13_Witness ==
  /\ ev.op = "configure"
  /\ ev.via = "Site"
  /\ ev.threw
  /\ ev.config.maxSize < 1
  /\ ev.config.ttl # cacheConfig.ttl
  /\ headerCache # <<>>

\* an entry a call may be served: it has not reached its effectiveExpiry
Fresh(e, now) == e.effectiveExpiry > now

\* the configuration the last successful Site({cacheConfig}) of the model
\* leaves
SiteConfigured == cacheConfig = [enabled |-> TRUE, maxSize |-> 1, ttl |-> 2]

\* C17: every parse, through whichever Site instance, runs under the one
\* current configuration and on the one cache: it is served from the cache
\* only while caching is enabled; it goes on to the decoder only if the
\* cache, when enabled, holds no fresh entry for the header, whoever inserted
\* it; and it stores its result exactly when caching is enabled, under the
\* current ttl and maxSize.
C17_SharedCacheAndConfig ==
  /\ (ev.op = "return" /\ ev.served = "cache") => cacheConfig.enabled
  /\ (ev.op = "await" /\ cacheConfig.enabled /\ ~ev.options.bypassCache)
       => /\ ev.stale = Undefined \/ ~Fresh(ev.stale, ev.now)
          /\ ~has(headerCache, ev.key)
  /\ (ev.op = "return" /\ ev.served = "decode")
       => /\ ev.stored <=> (cacheConfig.enabled /\ ~ev.options.bypassCache)
          /\ ev.stored =>
               /\ Len(headerCache) <= cacheConfig.maxSize
               /\ has(headerCache, ev.key)
                    => get(headerCache, ev.key).ttl = cacheConfig.ttl

\* after a Site was created with a cacheConfig, a parse through one
\* instance was served from the entry a parse through another instance
\* inserted under that configuration
C17_Witness ==
  /\ SiteConfigured
  /\ ev.op = "return"
  /\ ev.served = "cache"
  /\ ev.options \in {Options(instance, "", FALSE) : instance \in sites}
  /\ ev.entry.options \in {Options(instance, "", FALSE) : instance \in sites}
  /\ ev.entry.options # ev.options
  /\ ev.entry.ttl = cacheConfig.ttl

\* C14: whenever caching is disabled the cache is empty; a call that was
\* suspended at the decoder when caching was disabled stores nothing when it
\* completes.
C14_DisabledIsEmpty ==
  /\ ~cacheConfig.enabled => headerCache = <<>>
  /\ (ev.op = "return" /\ ev.served = "decode" /\ ~cacheConfig.enabled) => ~ev.stored

\* a call that started with caching enabled and missed has completed after
\* caching was disabled
C14_Witness ==
  /\ ev.op = "return"
  /\ ev.served = "decode"
  /\ ev.enabled
  /\ ~ev.options.bypassCache
  /\ ~cacheConfig.enabled
  /\ ev.data # Undefined
  /\ headerCache = <<>>

\* the context the call that returned gets from a decode from scratch of
\* its header, under its key, with its options, at its now: what the same
\* call returns with bypassCache: true
FromScratch == buildContext(Payload, ev.options, ev.now)

\* C15: a call returns the context a from-scratch decode of its header at
\* its start time gives, whether it was served from the cache or decoded,
\* whatever calls and reconfigurations ran before it or while it was
\* suspended, provided the entry that served it was inserted under the
\* call's own public key (as every entry is when all calls use one key).
C15_CacheTransparent ==
  /\ (Returned /\ (ev.served = "cache" => ev.entry.publicKey = KeyInEffect(ev.options)))
       => ev.context = FromScratch
  /\ (ev.op = "return" /\ ev.served = "absent") => ev.context = AllFalse

\* after a reconfiguration, and while another call is suspended, a call was
\* served actions from an entry inserted under its own key
C15_Witness ==
  /\ ev.op = "return"
  /\ ev.served = "cache"
  /\ ev.entry.publicKey = KeyInEffect(ev.options)
  /\ AnyTrue(ev.context)
  /\ configured > 0
  /\ \E i \in 1..MaxCalls : calls[i].pc = "await"

EntriesOf(key) == {i \in 1..Len(headerCache) : headerCache[i].key = key}

SequenceStep(e) ==
  /\ e.op \in {"await", "return"}
  /\ e.headerValue.kind = "array"
  /\ e.headerValue.a # <<>>

\* C18: a call on the sequence [h, ...rest] does what the call on the
\* string h does.  Where the string h is absent input the call returns all
\* false at once and leaves the cache and the suspended calls alone;
\* otherwise it looks up, decodes and stores under the key h, and returns
\* the context of h.
C18_FirstElementOnly ==
  [][SequenceStep(ev') =>
       LET h == ev'.headerValue.a[1]
           o == ev'.options
       IN  IF AbsentInput(Str(h))
           THEN /\ ev'.op = "return"
                /\ ev'.context = AllFalse
                /\ headerCache' = headerCache
                /\ calls' = calls
           ELSE /\ ev'.key = h
                /\ ev'.op = "await"
                     => headerCache' = lookup(h, o, ev'.now, cacheConfig, headerCache).headerCache
                /\ (ev'.op = "return" /\ ev'.served = "cache")
                     => /\ headerCache'
                             = lookup(h, o, ev'.now, cacheConfig, headerCache).headerCache
                        /\ ev'.context = serveCached(get(headerCache, h), o, ev'.now)
                /\ (ev'.op = "return" /\ ev'.served = "decode")
                     => LET d == decode(h, KeyInEffect(o), runtime).value
                        IN  /\ headerCache'
                                 = store(h, d, o, ev'.now, cacheConfig, headerCache).headerCache
                            /\ ev'.context = buildContext(d, o, ev'.now)]_vars

\* C19: a step of a call made with bypassCache: true, or taken while
\* caching is disabled, leaves the cache as it was; such a call is never
\* served from the cache: it returns after the decode, stores nothing, and
\* returns the context of what its header decodes to.
C19_BypassLeavesCache ==
  [][(/\ ev'.op \in {"await", "return"}
      /\ ev'.op = "return" => ev'.served # "absent"
      /\ ~cacheConfig.enabled \/ ev'.options.bypassCache)
       => /\ headerCache' = headerCache
          /\ ev'.op = "return"
               => /\ ev'.served = "decode"
                  /\ ~ev'.stored
                  /\ ev'.data = decode(ev'.key, KeyInEffect(ev'.options), runtime).value
                  /\ ev'.context = buildContext(ev'.data, ev'.options, ev'.now)]_vars

\* a call with bypassCache: true has decoded a header and returned its
\* actions while the cache held a fresh entry for that header, which was
\* never hit
C19_Witness ==
  /\ ev.op = "return"
  /\ ev.served = "decode"
  /\ ev.options.bypassCache
  /\ AnyTrue(ev.context)
  /\ has(headerCache, ev.key)
  /\ Fresh(get(headerCache, ev.key), ev.now)
  /\ get(headerCache, ev.key).accessCount = 1

\* C20: decodeClientHeader(encodeClientHeader(data, privateKey), the
\* matching publicKey) returns version 1, the expiry in whole seconds, the
\* flags whose bits are the features encoded, and the clientId encoded when
\* it is non-empty, no clientId otherwise.
C20_RoundTrip ==
  ev.op = "roundtrip" =>
    LET d == ev.data
        v == ev.result.value
    IN  /\ ~ev.result.threw
        /\ v # Undefined
        /\ v.version = 1
        /\ v.expiresAt = d.expiresAt - (d.expiresAt % MillisPerSecond)
        /\ v.flags < 4
        /\ \A f \in {CLEAN_WEB, ONE_PASS} : Granted(v.flags, f) <=> f \in Range(d.features)
        /\ Len(d.clientId) > 0 => ("clientId" \in DOMAIN v /\ v.clientId = d.clientId)
        /\ Len(d.clientId) = 0 => "clientId" \notin DOMAIN v

(***************************************************************************)
(* The cache entry a fresh decode stores                                    *)
(***************************************************************************)
\* the return of a call that decoded and stored its result
StoredReturn == ev.op = "return" /\ ev.served = "decode" /\ ev.stored

\* C21: the entry a fresh decode stores under the header string has
\* accessCount 1, timestamp now, and effectiveExpiry min(now + ttl, token
\* expiry) for every decoded payload, an expiry of 0 s included, and
\* now + ttl for an undecodable header.
C21_StoredEntry ==
  StoredReturn =>
    LET stored == get(ev.inserted, ev.key)
    IN  /\ stored.accessCount = 1
        /\ stored.timestamp = ev.now
        /\ stored.data = Payload
        /\ Payload # Undefined
             => stored.effectiveExpiry = Min(ev.now + cacheConfig.ttl, Payload.expiresAt)
        /\ Payload = Undefined => stored.effectiveExpiry = ev.now + cacheConfig.ttl

\* the same for the tokens whose expiry is after the epoch
C21_StoredEntryAfterEpoch ==
  (StoredReturn /\ (Payload # Undefined => Payload.expiresAt > 0)) => C21_StoredEntry

(***************************************************************************)
(* The lookup                                                              *)
(***************************************************************************)
\* the step is the first step of a call on a header: up to a hit or to the
\* await
LookupStep == ev'.op = "await" \/ (ev'.op = "return" /\ ev'.served = "cache")

\* C22: a lookup that finds an entry whose effectiveExpiry is in the future
\* returns without a decode, adds one to that entry's accessCount and leaves
\* the rest of the entry, every other entry, their order and the
\* configuration as they were: no sweep and no trim.
C22_HitFrame ==
  [][(/\ LookupStep
      /\ UsesCache(cacheConfig, ev'.options)
      /\ has(headerCache, ev'.key)
      /\ get(headerCache, ev'.key).effectiveExpiry > clock)
       => /\ ev'.op = "return"
          /\ calls' = calls
          /\ cacheConfig' = cacheConfig
          /\ Len(headerCache') = Len(headerCache)
          /\ \A n \in 1..Len(headerCache) :
                headerCache'[n] =
                  IF headerCache[n].key = ev'.key
                  THEN [headerCache[n] EXCEPT !.accessCount = headerCache[n].accessCount + 1]
                  ELSE headerCache[n]]_vars

\* a hit, after the clock advanced, on one of two entries of a cache at
\* capacity, one of them expired
C22_Witness ==
  /\ ev.op = "return" /\ ev.served = "cache"
  /\ Len(headerCache) = 2
  /\ cacheConfig.maxSize = 2
  /\ ev.now > ev.entry.timestamp
  /\ get(headerCache, ev.key).accessCount = ev.entry.accessCount + 1
  /\ \E e \in Range(headerCache) : e.effectiveExpiry <= ev.now

\* the return of a call whose lookup had found an expired entry
StaleReturn == ev.op = "return" /\ ev.served = "decode" /\ ev.stale # Undefined

\* C23: a lookup that finds an entry whose effectiveExpiry has passed
\* (effectiveExpiry <= now) deletes it, leaves the other entries alone and
\* goes on to the decode; the call returns the context of what the decode
\* gives, not of the expired payload, and with caching still enabled it
\* inserts an entry with accessCount 1 that holds the decoded payload.
C23_StaleRedecoded ==
  [][/\ (/\ LookupStep
          /\ UsesCache(cacheConfig, ev'.options)
          /\ has(headerCache, ev'.key)
          /\ get(headerCache, ev'.key).effectiveExpiry <= clock)
           => /\ ev'.op = "await"
              /\ ev'.stale = get(headerCache, ev'.key)
              /\ ~has(headerCache', ev'.key)
              /\ headerCache' = SelectSeq(headerCache, LAMBDA e : e.key # ev'.key)
              /\ \E i \in 1..MaxCalls : calls[i].pc = "idle" /\ calls'[i].pc = "await"
     /\ StaleReturn'
           => /\ ev'.data = Payload'
              /\ ev'.context = ContextOf(Payload', ev'.options, ev'.now)
              /\ cacheConfig.enabled
                   => /\ ev'.stored
                      /\ get(ev'.inserted, ev'.key).accessCount = 1
                      /\ get(ev'.inserted, ev'.key).data = Payload'
                      /\ get(ev'.inserted, ev'.key).timestamp = ev'.now]_vars

\* a call found an expired entry whose payload is not what its own decode
\* gives, and returned after storing a fresh entry
C23_Witness ==
  /\ StaleReturn
  /\ ev.stale.data # ev.data
  /\ ev.stored
  /\ has(headerCache, ev.key)
  /\ get(headerCache, ev.key).accessCount = 1
  /\ get(headerCache, ev.key).data = ev.data

(***************************************************************************)
(* The entry a call inserts and the trim of the same call                  *)
(***************************************************************************)
\* C24: after a fresh decode of an unexpired token with caching enabled and
\* ttl > 0, the entry the call inserted is in the cache when the call
\* returns, unexpired: the trim of the same call does not remove it, and a
\* parse of the same header that follows at once is a hit.
C24_InsertedSurvivesTrim ==
  (/\ StoredReturn
   /\ cacheConfig.ttl > 0
   /\ Payload # Undefined
   /\ Payload.expiresAt > ev.now)
    => /\ has(headerCache, ev.key)
       /\ lookup(ev.key, ev.options, ev.now, cacheConfig, headerCache).hit

\* the same when no entry of the cache has been hit: every accessCount is 1
C24_InsertedSurvivesTrimWithoutHits ==
  (StoredReturn /\ \A e \in Range(ev.trimmed) : e.accessCount = 1)
    => C24_InsertedSurvivesTrim

C26_TtlImmediate ==
  (ev.op = "return" /\ ev.served = "cache")
    => ev.now - ev.entry.timestamp <= cacheConfig.ttl

(***************************************************************************)
(* accessCount under overlapping calls                                     *)
(***************************************************************************)
\* C30: while a header stays in the cache its entry's accessCount never
\* decreases, whatever the interleaving of the calls on that header.
C30_AccessCountMonotone ==
  [][\A e \in Range(headerCache) :
       has(headerCache', e.key) => get(headerCache', e.key).accessCount >= e.accessCount]_vars

\* the same for the steps that are not the store of a call that overlapped
\* another call on its header
C30_AccessCountMonotoneWithoutOverwrite ==
  [][(ev'.op = "return" /\ ev'.served = "decode" => ev'.replaced = Undefined)
       => \A e \in Range(headerCache) :
            has(headerCache', e.key)
              => get(headerCache', e.key).accessCount >= e.accessCount]_vars

(***************************************************************************)
(* The expired-entry sweep                                                 *)
(***************************************************************************)
\* C28: over a run of consecutive cache-inserting parses the sweep is
\* performed on every 100th of them and on no other, whatever maxSize is
\* configured and whatever the cache holds.  (In SpecSweep every call inserts
\* and the calls do not overlap: at a call's return, started is the number
\* of inserting parses so far.)
C28_EveryHundredthInsert ==
  StoredReturn => (ev.sweep <=> started % SweepModulus = 0)

\* one half of it: the sweep is performed on no parse but a 100th
C28_SweepOnlyOnHundredth ==
  (StoredReturn /\ ev.sweep) => started % SweepModulus = 0

\* the same for the runs that only fill a cache of the default maxSize from
\* empty, before any entry expires or is parsed again
C28_EveryHundredthInsertWhenFilling ==
  (/\ StoredReturn
   /\ cacheConfig = DEFAULT_CACHE_CONFIG
   /\ started <= SweepModulus
   /\ Len(ev.inserted) = started)
    => C28_EveryHundredthInsert

\* C29: when the sweep runs at time now, no entry with effectiveExpiry <= now
\* is in the cache afterwards, and every entry with effectiveExpiry > now is
\* still there, in its place, with the payload, accessCount, timestamp and
\* effectiveExpiry it had.
C29_SweepFrame ==
  (StoredReturn /\ ev.sweep)
    => /\ \A e \in Range(ev.inserted) :
            IF e.effectiveExpiry <= ev.now
            THEN ~has(ev.trimmed, e.key) /\ ~has(headerCache, e.key)
            ELSE has(ev.trimmed, e.key) /\ get(ev.trimmed, e.key) = e
       /\ Range(ev.trimmed) \subseteq Range(ev.inserted)
       /\ ev.trimmed = SelectSeq(ev.inserted, LAMBDA e : has(ev.trimmed, e.key))

\* a sweep of a cache of 100 entries removed some, one of them expiring at
\* now, and kept others
C29_Witness ==
  /\ StoredReturn /\ ev.sweep
  /\ Len(ev.inserted) = SweepModulus
  /\ \E e \in Range(ev.inserted) : e.effectiveExpiry = ev.now /\ ~has(headerCache, e.key)
  /\ \E e \in Range(ev.inserted) : e.effectiveExpiry > ev.now /\ has(headerCache, e.key)

(***************************************************************************)
(* Expired entries whose key is not looked up again                        *)
(***************************************************************************)
\* the cache holds an entry for the header whose effectiveExpiry has passed
Expired(key) == has(headerCache, key) /\ get(headerCache, key).effectiveExpiry <= clock

\* the step is the return of a call that decoded and stored its result
FreshDecode == ev'.op = "return" /\ ev'.served = "decode" /\ ev'.stored

\* C27: provided parses that perform fresh decodes keep occurring, every
\* entry whose effectiveExpiry has passed is removed from the cache in the
\* end, whatever maxSize >= 1 is configured.
C27_ExpiredEventuallyRemoved ==
  ([]<><<FreshDecode>>_vars) => \A key \in EvictionHeaders : Expired(key) ~> ~Expired(key)

(***************************************************************************)
(* A sequence whose first element is the empty string                      *)
(***************************************************************************)
EmptyFirst == Arr(<< <<>> >>)

\* C31: parseClientToken([""], opts) is empty input: the call returns all
\* false in the step that starts it, without reaching the decoder, and the
\* cache is as it was: no entry under the empty key, no change of size.
C31_EmptyFirstElementIsAbsent ==
  [][/\ (ev'.op \in {"await", "return"} /\ ev'.headerValue = EmptyFirst)
          => /\ ev'.op = "return"
             /\ ev'.context = AllFalse
             /\ headerCache' = headerCache
             /\ calls' = calls
     /\ ~has(headerCache, <<>>) => ~has(headerCache', <<>>)]_vars

\* the returned context alone: every call on [""] that returns, returns all
\* false
C31_EmptyFirstElementAllFalse ==
  (ev.op = "return" /\ ev.headerValue = EmptyFirst) => ev.context = AllFalse

(***************************************************************************)
(* The "warn" log calls                                                    *)
(***************************************************************************)
\* the reasons the catch of decodeClientHeader can log
FailureReasons ==
  {"Invalid header format: missing separator", "base64", "Forged header value is provided",
   "Unsupported protocol version", "Invalid data length"}

\* C32: a call whose decode fails (a non-empty header that does not decode)
\* makes exactly one "warn" log call, which carries the reason of the
\* failure; a call whose header decodes makes none, also when the token has
\* expired or is scoped to another clientId and the context is all false; a
\* call on absent or empty input or one served from the cache, an entry
\* without a payload included, returns in its first step without invoking
\* the decoder, the only place of a "warn" log call.
C32_OneWarnPerFailedDecode ==
  [][/\ (ev'.op = "return" /\ ev'.served = "decode")
          => IF Len(ev'.key) > 0 /\ ~IsDecodable(ev'.key, KeyInEffect(ev'.options), runtime)
             THEN Len(ev'.warn) = 1 /\ ev'.warn[1] \in FailureReasons
             ELSE ev'.warn = <<>>
     /\ (ev'.op = "return" /\ ev'.served \in {"absent", "cache"})
          => /\ calls' = calls
             /\ "warn" \notin DOMAIN ev']_vars

\* a decode failed at the base64 step and logged that one reason
C32_Witness ==
  /\ ev.op = "return" /\ ev.served = "decode"
  /\ ev.data = Undefined
  /\ ev.warn = <<"base64">>
  /\ ev.context = AllFalse

\* a header without a payload was served from the cache
C32_SentinelHit ==
  /\ ev.op = "return"
  /\ ev.served = "cache"
  /\ ev.entry.data = Undefined
  /\ Len(ev.key) > 0
  /\ clock > StartTime

\* a token that decodes was refused for its expiry or its clientId, without
\* a warning
C32_RefusedWithoutWarning ==
  /\ ev.op = "return" /\ ev.served = "decode"
  /\ ev.data # Undefined
  /\ ev.data.expiresAt < ev.now \/ ~InScope(ev.data, ev.options)
  /\ ev.context = AllFalse
  /\ ev.warn = <<>>

(***************************************************************************)
(* The order of the decoder's checks                                       *)
(***************************************************************************)
\* the two parts of a header that has a separator, as the runtime's base64
\* decoder gives them
DataPart(headerValue, rt) ==
  fromBase64(SubSeq(headerValue, 1, indexOf(headerValue, SEPARATOR)), rt)
SignaturePart(headerValue, rt) ==
  fromBase64(SubSeq(headerValue, indexOf(headerValue, SEPARATOR) + 2, Len(headerValue)), rt)

\* the steps in their order, each a failure only if all steps before it
\* passed: <<>> if none fails
FirstFailure(headerValue, publicKey, rt) ==
  IF indexOf(headerValue, SEPARATOR) = -1
    THEN <<"Invalid header format: missing separator">>
  ELSE IF ~DataPart(headerValue, rt).ok \/ ~SignaturePart(headerValue, rt).ok
    THEN <<"base64">>
  ELSE IF ~SignatureVerifies(headerValue, publicKey, rt)
    THEN <<"Forged header value is provided">>
  ELSE IF DataPart(headerValue, rt).bytes = <<>> \/ DataPart(headerValue, rt).bytes[1] # V_1
    THEN <<"Unsupported protocol version">>
  ELSE IF Len(DataPart(headerValue, rt).bytes) < 13
    THEN <<"Invalid data length">>
  ELSE <<>>

\* C33: the decoder's checks run in the order separator, base64, signature,
\* version, minimum length, and the failure it reports is that of the first
\* step that fails: forged whatever the version and the length of a payload
\* whose signature does not verify, unsupported version for a validly signed
\* payload whose first byte is not 1, shorter than 13 bytes or not.
C33_FirstFailingStep ==
  (ev.op = "decoded" /\ Len(ev.headerValue) > 0)
    => /\ ev.result.warn = FirstFailure(ev.headerValue, ev.publicKey, runtime)
       /\ ev.result.value = Undefined <=> ev.result.warn # <<>>

\* a validly signed payload shorter than 13 bytes whose first byte is not 1
\* failed as unsupported version
C33_Witness ==
  /\ ev.op = "decoded"
  /\ SignatureVerifies(ev.headerValue, ev.publicKey, runtime)
  /\ Len(PayloadBytes(ev.headerValue, runtime)) \in 1..12
  /\ PayloadBytes(ev.headerValue, runtime)[1] # V_1
  /\ ev.result.warn = <<"Unsupported protocol version">>

\* a header whose signature does not verify failed as forged although its
\* payload is not version 1, or is shorter than 13 bytes
C33_ForgedFirst ==
  /\ ev.op = "decoded"
  /\ ev.result.warn = <<"Forged header value is provided">>
  /\ LET bytes == PayloadBytes(ev.headerValue, runtime)
     IN  bytes = <<>> \/ bytes[1] # V_1 \/ Len(bytes) < 13

(***************************************************************************)
(* configureCaching merges                                                 *)
(***************************************************************************)
\* C34: a call of configureCaching that does not throw changes the fields
\* its argument carries, to the values it carries, and no other field; when
\* the resulting configuration is enabled and the cache holds no more than
\* the resulting maxSize, the call leaves the cache as it was.  A call that
\* throws changes nothing.
C34_MergeFrame ==
  [][ev'.op = "configure"
       => IF ev'.threw
          THEN cacheConfig' = cacheConfig /\ headerCache' = headerCache
          ELSE /\ DOMAIN cacheConfig' = DOMAIN cacheConfig
               /\ \A f \in DOMAIN cacheConfig :
                    cacheConfig'[f] = IF f \in DOMAIN ev'.config THEN ev'.config[f]
                                      ELSE cacheConfig[f]
               /\ (cacheConfig'.enabled /\ Len(headerCache) <= cacheConfig'.maxSize)
                    => headerCache' = headerCache]_vars

\* a second call changed the ttl alone: the maxSize a first call had set,
\* not the default one, is still in force and the entries are still there
C34_Witness ==
  /\ ev.op = "configure" /\ ~ev.threw
  /\ DOMAIN ev.config = {"ttl"}
  /\ cacheConfig.maxSize # DEFAULT_CACHE_CONFIG.maxSize
  /\ cacheConfig.ttl = ev.config.ttl
  /\ cacheConfig.enabled
  /\ Len(headerCache) = cacheConfig.maxSize

(***************************************************************************)
(* The entries of the cache                                                *)
(***************************************************************************)
\* the bounds of one entry: it was accessed at least once, it is live no
\* longer than the ttl in force at its insertion, and no longer than a token
\* of positive expiry is valid
EntryBounds(e) ==
  /\ e.accessCount >= 1
  /\ e.effectiveExpiry <= e.timestamp + e.ttl
  /\ (e.data # Undefined /\ e.data.expiresAt > 0) => e.effectiveExpiry <= e.data.expiresAt

\* a call returned from the cache, on an entry that held a decoded token
TokenHit == ev.op = "return" /\ ev.served = "cache" /\ ev.entry.data # Undefined

\* C35: in every state every entry of the cache has accessCount >= 1,
\* effectiveExpiry <= timestamp + the ttl in force when it was inserted, and
\* effectiveExpiry <= the expiry of its token where that is positive; and no
\* call is served from the cache an entry of a token whose expiry has passed
\* at the time of the call.
C35_EntryBoundsAndLiveHits ==
  /\ \A n \in 1..Len(headerCache) : EntryBounds(headerCache[n])
  /\ TokenHit => ev.entry.data.expiresAt >= ev.now

\* the same, the hits on tokens that expired at the epoch left aside
C35_EntryBoundsAndLiveHitsAfterEpoch ==
  /\ \A n \in 1..Len(headerCache) : EntryBounds(headerCache[n])
  /\ (TokenHit /\ ev.entry.data.expiresAt > 0) => ev.entry.data.expiresAt >= ev.now

\* a hit on the entry of a token of positive expiry that the token's expiry,
\* not the ttl, keeps live
C35_LiveHit ==
  /\ TokenHit
  /\ ev.entry.effectiveExpiry = ev.entry.data.expiresAt
  /\ ev.entry.effectiveExpiry < ev.entry.timestamp + ev.entry.ttl
  /\ ev.now > ev.entry.timestamp

(***************************************************************************)
(* The nonce                                                               *)
(***************************************************************************)
\* C36: two validly signed version 1 headers whose payloads differ in the
\* nonce bytes alone both decode, without a warning, to the same value
\* (expiresAt, flags, clientId), and give the same context for the same site
\* options at the same time.
C36_NonceIgnored ==
  ev.op = "pair"
    => /\ ev.results[1].value # Undefined
       /\ ev.results[1] = ev.results[2]
       /\ ev.results[1].warn = <<>>
       /\ ev.contexts[1] = ev.contexts[2]

\* the nonces differ, and so do the headers, in the payload part and in the
\* signature part; the context they share grants an action
C36_Witness ==
  /\ ev.op = "pair"
  /\ ev.first # ev.second
  /\ DataPart(ev.headers[1], runtime) # DataPart(ev.headers[2], runtime)
  /\ SignaturePart(ev.headers[1], runtime) # SignaturePart(ev.headers[2], runtime)
  /\ ev.results[1].value.expiresAt = ev.data.expiresAt
  /\ AnyTrue(ev.contexts[1])

====
